---- MODULE Spec2Model ----
(***************************************************************************)
(* Model of the WeCom Bot inbound fabric: the StreamStore (streams, msgid  *)
(* dedupe map, pending batches, conversation queue, ack streams, TTL       *)
(* pruning), the Bot webhook message handler that admits messages into it, *)
(* and the flush handler / agent run that completes batches; and of the    *)
(* Agent API client's access-token cache; and of one agent run in detail   *)
(* (the deliver callback, the fallbacks to Agent DM, the finalization).    *)
(***************************************************************************)
EXTENDS Integers, Sequences, FiniteSets, TLC

VARIABLES
    streams,                     \* StreamStore.streams: streamId -> StreamState
    msgidToStreamId,             \* StreamStore.msgidToStreamId (NoStream = absent)
    pendingInbounds,             \* StreamStore.pendingInbounds: batchKey -> PendingInbound
    conversationState,           \* StreamStore.conversationState: conversationKey -> entry
    streamIdToBatchKey,          \* StreamStore.streamIdToBatchKey
    batchStreamIdToAckStreamIds, \* StreamStore.batchStreamIdToAckStreamIds
    nextStreamId,                \* number of stream ids drawn so far, plus one
    reqs,                        \* webhook requests in flight (awaiting readJsonBody)
    nPosts,                      \* number of POSTs received so far
    running,                     \* stream ids whose startAgentForStream has not returned
    agentRuns,                   \* log: one record per startAgentForStream call, in order
    lastReply,                   \* the reply written by the most recent handler run
    evicted                      \* msgids whose mapping the pruner has removed at least once

VARIABLES
    clock,                       \* Date.now() as the token cache reads it, ms
    tokenCaches,                 \* api-client tokenCaches: cacheKey -> TokenCache
    refreshes,                   \* the refresh promises created so far, in order
    callers,                     \* the callers of getAccessToken
    nCalls                       \* number of getAccessToken calls so far

VARIABLES
    details,                     \* streamId -> the content and fallback fields of StreamState
    dispatching,                 \* stream ids whose run is inside the agent dispatch
    outbox,                      \* log of the pushes to response_url and the Agent DMs
    nBlocks,                     \* number of blocks delivered so far
    cfg                          \* account configuration and sender of the run

VARIABLES
    webhookTargets,              \* monitor webhookTargets: path -> registrations, in order
    agentTargets,                \* monitor agentTargets: WEBHOOK_PATHS.AGENT -> registration
    pruneInterval,               \* MonitorState.pruneInterval is set
    registrations                \* the register calls made so far and their unregister calls

VARIABLES
    recentAgentMsgIds,           \* agent webhook recentAgentMsgIds: MsgId -> timestamp
    agentReqs,                   \* the agent callbacks in flight, per handler
    processed,                   \* log of the processAgentMessage calls
    agentNow,                    \* Date.now() as the agent webhook reads it, ms
    nAgentPosts                  \* number of agent callbacks received

VARIABLES
    call,                        \* the function applied and its arguments
    returned                     \* what the call has returned, thrown and done

VARIABLES
    timers,                      \* the debounce timers armed and not yet fired or cleared
    handles                      \* batchKey -> the timer its pending entry holds (timeout)

VARIABLES
    activeReplies,               \* ActiveReplyStore.activeReplies: streamId -> ActiveReplyState
    uses,                        \* the calls of ActiveReplyStore.use, per caller
    replyNow,                    \* Date.now() as the ActiveReplyStore reads it, ms
    nReplyCalls                  \* number of store and use calls so far

storeVars == <<streams, msgidToStreamId, pendingInbounds, conversationState,
               streamIdToBatchKey, batchStreamIdToAckStreamIds, nextStreamId,
               reqs, nPosts, running, agentRuns, lastReply, evicted>>

tokenVars == <<clock, tokenCaches, refreshes, callers, nCalls>>

runVars == <<details, dispatching, outbox, nBlocks, cfg>>

targetVars == <<webhookTargets, agentTargets, pruneInterval, registrations>>

agentVars == <<recentAgentMsgIds, agentReqs, processed, agentNow, nAgentPosts>>

callVars == <<call, returned>>

timerVars == <<timers, handles>>

replyVars == <<activeReplies, uses, replyNow, nReplyCalls>>

otherVars == <<targetVars, agentVars, callVars, timerVars, replyVars>>

vars == <<storeVars, tokenVars, runVars, otherVars>>

-----------------------------------------------------------------------------
(* Bounds of the model *)

MaxPosts == 4
MaxHttpPosts == 3

(* Program constants *)

STREAM_TTL_MS == 10 * 60 * 1000

(* Time. Time stamps are kept relative to the present: Date.now() is 0 and a
   stored stamp is 0 or negative. When time passes every stored stamp moves
   back by the step. prune only compares a stamp with now - STREAM_TTL_MS, so
   every stamp older than that is kept as the one value Expired. *)
now == 0
TickMs == 11 * 60 * 1000
Expired == (0 - STREAM_TTL_MS) - 1
Aged(t) == IF t - TickMs < 0 - STREAM_TTL_MS THEN Expired ELSE t - TickMs

(* Inputs *)

ConversationKeys == {<<"A">>}
MsgIdOrder == <<"m1", "m2">>
MsgIds == {MsgIdOrder[i] : i \in 1..Len(MsgIdOrder)}
NoMsgId == ""
Handlers == {1, 2}

NoStream == 0
NoKey == <<>>

-----------------------------------------------------------------------------
(* Small helpers over maps held as functions *)

Has(map, k) == k \in DOMAIN map

Put(map, k, v) == [x \in DOMAIN map \cup {k} |-> IF x = k THEN v ELSE map[x]]

Delete(map, k) == [x \in DOMAIN map \ {k} |-> map[x]]

EmptyMap == [x \in {} |-> 0]

-----------------------------------------------------------------------------
(* The store, gathered in one record so that a handler's calls compose. *)

St == [streams |-> streams,
       msgidToStreamId |-> msgidToStreamId,
       pendingInbounds |-> pendingInbounds,
       conversationState |-> conversationState,
       streamIdToBatchKey |-> streamIdToBatchKey,
       batchStreamIdToAckStreamIds |-> batchStreamIdToAckStreamIds,
       nextStreamId |-> nextStreamId,
       running |-> running,
       agentRuns |-> agentRuns]

SetStore(S) ==
    /\ streams' = S.streams
    /\ msgidToStreamId' = S.msgidToStreamId
    /\ pendingInbounds' = S.pendingInbounds
    /\ conversationState' = S.conversationState
    /\ streamIdToBatchKey' = S.streamIdToBatchKey
    /\ batchStreamIdToAckStreamIds' = S.batchStreamIdToAckStreamIds
    /\ nextStreamId' = S.nextStreamId
    /\ running' = S.running
    /\ agentRuns' = S.agentRuns

(* `${conversationKey}#q${seq}`: the conversation key followed by the suffix. *)
QueuedBatchKey(conversationKey, seq) == Append(conversationKey, seq)

(* createStream without the write of the mapping *)
MapMsgid_Skip(map, msgid, streamId) == map

(* msgidToStreamId.set(String(msgid), streamId) when a msgid is given *)
MapMsgid(map, msgid, streamId) ==
    IF msgid # NoMsgId THEN [map EXCEPT ![msgid] = streamId] ELSE map

(* createStream: a fresh id, the msgid mapping, the stream state, the batch key *)
createStream(S, msgid, conversationKey, batchKey) ==
    LET streamId == S.nextStreamId IN
    [S EXCEPT
        !.nextStreamId = streamId + 1,
        !.msgidToStreamId = MapMsgid(@, msgid, streamId),
        !.streams = Put(@, streamId,
            [msgid |-> msgid,
             conversationKey |-> conversationKey,
             batchKey |-> batchKey,
             updatedAt |-> now,
             started |-> FALSE,
             finished |-> FALSE]),
        !.streamIdToBatchKey =
            IF batchKey # NoKey THEN Put(@, streamId, batchKey) ELSE @]

getStreamByMsgId(S, msgid) ==
    IF msgid \in DOMAIN S.msgidToStreamId THEN S.msgidToStreamId[msgid] ELSE NoStream

setStreamIdForMsgId(S, msgid, streamId) ==
    IF msgid = NoMsgId \/ streamId = NoStream THEN S
    ELSE [S EXCEPT !.msgidToStreamId = [@ EXCEPT ![msgid] = streamId]]

addAckStreamForBatch(S, batchStreamId, ackStreamId) ==
    IF batchStreamId = NoStream \/ ackStreamId = NoStream THEN S
    ELSE LET list == IF Has(S.batchStreamIdToAckStreamIds, batchStreamId)
                     THEN S.batchStreamIdToAckStreamIds[batchStreamId] ELSE <<>>
         IN [S EXCEPT !.batchStreamIdToAckStreamIds =
                Put(@, batchStreamId, Append(list, ackStreamId))]

(* the list drainAckStreamsForBatch returns *)
AckStreamsOf(S, batchStreamId) ==
    IF Has(S.batchStreamIdToAckStreamIds, batchStreamId)
    THEN S.batchStreamIdToAckStreamIds[batchStreamId] ELSE <<>>

drainAckStreamsForBatch(S, batchStreamId) ==
    [S EXCEPT !.batchStreamIdToAckStreamIds =
        IF Has(@, batchStreamId) THEN Delete(@, batchStreamId) ELSE @]

(* A mutator is the record of the fields it assigns; mutator(state): *)
ApplyMutator(mutator, state) ==
    [f \in DOMAIN state |-> IF f \in DOMAIN mutator THEN mutator[f] ELSE state[f]]

(* updateStream: apply the mutator and refresh updatedAt, when the stream exists *)
updateStream(S, streamId, mutator) ==
    IF Has(S.streams, streamId)
    THEN [S EXCEPT !.streams[streamId] =
            [ApplyMutator(mutator, @) EXCEPT !.updatedAt = now]]
    ELSE S

SetStarted == [started |-> TRUE]

SetFinished == [finished |-> TRUE]

markStarted(S, streamId) == updateStream(S, streamId, SetStarted)

markFinished(S, streamId) == updateStream(S, streamId, SetFinished)

-----------------------------------------------------------------------------
(* Flush: the debounce timer, the store's flush and the monitor's handler *)

(* a mutator that assigns only fields the model does not keep (the routing *)
(* context, the content)                                                   *)
Identity == EmptyMap

(* startAgentForStream up to its first await: it is entered, writes the       *)
(* routing context into the stream (updateStream) and then suspends.          *)
startAgentForStream(S, streamId, conversationKey, batchKey, contents, msgids) ==
    LET S1 == updateStream(S, streamId, Identity) IN
    [S1 EXCEPT
        !.running = @ \cup {streamId},
        !.agentRuns = Append(@, [streamId |-> streamId,
                                 conversationKey |-> conversationKey,
                                 batchKey |-> batchKey,
                                 contents |-> contents,
                                 msgids |-> msgids])]

(* monitor.ts flushPending, the registered flush handler. The runtime is set  *)
(* by the plugin's register() before any webhook is served, so getWecomRuntime *)
(* succeeds: the stream is marked started and the agent run begins.           *)
MonitorFlush(S, pending) ==
    startAgentForStream(markStarted(S, pending.streamId), pending.streamId,
                        pending.conversationKey, pending.batchKey,
                        pending.contents, pending.msgids)

(* the same without pendingInbounds.delete(pendingKey) *)
flushPending_KeepsPending(S, pendingKey) ==
    IF ~Has(S.pendingInbounds, pendingKey) THEN S
    ELSE LET pending == S.pendingInbounds[pendingKey]
         IN MonitorFlush(S, [pending EXCEPT !.timeout = FALSE,
                                            !.readyToFlush = FALSE])

(* StreamStore.flushPending: remove the pending entry, clear its timer, hand  *)
(* it to the flush handler.                                                   *)
flushPending(S, pendingKey) ==
    IF ~Has(S.pendingInbounds, pendingKey) THEN S
    ELSE LET pending == S.pendingInbounds[pendingKey]
             S1 == [S EXCEPT !.pendingInbounds = Delete(@, pendingKey)]
         IN MonitorFlush(S1, [pending EXCEPT !.timeout = FALSE,
                                             !.readyToFlush = FALSE])

IsActiveBatch_Always(S, conversationKey, batchKey) == TRUE

(* state?.activeBatchKey === batchKey *)
IsActiveBatch(S, conversationKey, batchKey) ==
    /\ Has(S.conversationState, conversationKey)
    /\ S.conversationState[conversationKey].activeBatchKey = batchKey

(* StreamStore.requestFlush, what a debounce timer runs *)
requestFlush(S, batchKey) ==
    IF ~Has(S.pendingInbounds, batchKey) THEN S
    ELSE LET pending == S.pendingInbounds[batchKey] IN
         IF ~IsActiveBatch(S, pending.conversationKey, batchKey)
         THEN [S EXCEPT !.pendingInbounds[batchKey] =
                  [@ EXCEPT !.timeout = FALSE, !.readyToFlush = TRUE]]
         ELSE flushPending(S, batchKey)

(* StreamStore.onStreamFinished *)
onStreamFinished(S, streamId) ==
    LET batchKey == IF Has(S.streamIdToBatchKey, streamId)
                    THEN S.streamIdToBatchKey[streamId] ELSE NoKey
        conversationKey == IF batchKey # NoKey /\ Has(S.streams, streamId)
                           THEN S.streams[streamId].conversationKey ELSE NoKey
    IN
    IF batchKey = NoKey \/ conversationKey = NoKey THEN S
    ELSE IF ~Has(S.conversationState, conversationKey) THEN S
    ELSE LET conv == S.conversationState[conversationKey] IN
         IF conv.activeBatchKey # batchKey THEN S
         ELSE IF conv.queue = <<>>
              THEN [S EXCEPT !.conversationState = Delete(@, conversationKey)]
              ELSE LET next == Head(conv.queue)
                       S1 == [S EXCEPT !.conversationState[conversationKey] =
                                 [@ EXCEPT !.activeBatchKey = next,
                                           !.queue = Tail(conv.queue)]]
                   IN IF ~Has(S1.pendingInbounds, next) THEN S1
                      ELSE IF S1.pendingInbounds[next].readyToFlush
                           THEN flushPending(S1, next)
                           ELSE S1

-----------------------------------------------------------------------------
(* Admission *)

NewPending(streamId, conversationKey, batchKey, msgid, msgContent) ==
    [streamId |-> streamId,
     conversationKey |-> conversationKey,
     batchKey |-> batchKey,
     msgid |-> msgid,
     contents |-> <<msgContent>>,
     msgids |-> IF msgid # NoMsgId THEN <<msgid>> ELSE <<>>,
     createdAt |-> now,
     timeout |-> TRUE,
     readyToFlush |-> FALSE]

(* the same with unshift for push *)
MergeInto_Unshift(pending, msgid, msgContent) ==
    [pending EXCEPT
        !.contents = <<msgContent>> \o @,
        !.msgids = IF msgid # NoMsgId THEN <<msgid>> \o @ ELSE @,
        !.timeout = TRUE]

(* the same with the contents replaced by the new message *)
MergeInto_Replace(pending, msgid, msgContent) ==
    [pending EXCEPT
        !.contents = <<msgContent>>,
        !.msgids = IF msgid # NoMsgId THEN Append(@, msgid) ELSE @,
        !.timeout = TRUE]

(* contents.push, msgids.push, clearTimeout and a fresh setTimeout *)
MergeInto(pending, msgid, msgContent) ==
    [pending EXCEPT
        !.contents = Append(@, msgContent),
        !.msgids = IF msgid # NoMsgId THEN Append(@, msgid) ELSE @,
        !.timeout = TRUE]

(* the same test without !activeIsInitial *)
ActiveAcceptsMerge_IntoInitial(S, conversationKey) ==
    LET activeBatchKey == S.conversationState[conversationKey].activeBatchKey IN
    /\ Has(S.pendingInbounds, activeBatchKey)
    /\ LET activePending == S.pendingInbounds[activeBatchKey] IN
       ~(Has(S.streams, activePending.streamId)
            /\ S.streams[activePending.streamId].started)

(* activePending && !activeIsInitial && !activeStarted *)
ActiveAcceptsMerge(S, conversationKey) ==
    LET activeBatchKey == S.conversationState[conversationKey].activeBatchKey IN
    /\ Has(S.pendingInbounds, activeBatchKey)
    /\ activeBatchKey # conversationKey
    /\ LET activePending == S.pendingInbounds[activeBatchKey] IN
       ~(Has(S.streams, activePending.streamId)
            /\ S.streams[activePending.streamId].started)

QueuedAcceptsMerge_Never(S, conversationKey) == FALSE

(* merging only while the queued batch still waits for its debounce *)
QueuedAcceptsMerge_UnlessReady(S, conversationKey) ==
    LET queue == S.conversationState[conversationKey].queue IN
    /\ queue # <<>>
    /\ Has(S.pendingInbounds, Head(queue))
    /\ ~S.pendingInbounds[Head(queue)].readyToFlush

(* state.queue[0] is set and its pending entry exists *)
QueuedAcceptsMerge(S, conversationKey) ==
    LET queue == S.conversationState[conversationKey].queue IN
    /\ queue # <<>>
    /\ Has(S.pendingInbounds, Head(queue))

(* StreamStore.addPendingMessage: the store after the call, the stream id and *)
(* the status it returns.                                                     *)
addPendingMessage(S, conversationKey, msgid, msgContent) ==
    IF ~Has(S.conversationState, conversationKey)
    THEN LET batchKey == conversationKey
             streamId == S.nextStreamId
             S1 == createStream(S, msgid, conversationKey, batchKey)
         IN [store |-> [S1 EXCEPT
                 !.pendingInbounds = Put(@, batchKey,
                     NewPending(streamId, conversationKey, batchKey, msgid, msgContent)),
                 !.conversationState = Put(@, conversationKey,
                     [activeBatchKey |-> batchKey, queue |-> <<>>, nextSeq |-> 1])],
             streamId |-> streamId,
             status |-> "active_new"]
    ELSE IF ActiveAcceptsMerge(S, conversationKey)
    THEN LET activeBatchKey == S.conversationState[conversationKey].activeBatchKey IN
         [store |-> [S EXCEPT !.pendingInbounds[activeBatchKey] =
                        MergeInto(@, msgid, msgContent)],
          streamId |-> S.pendingInbounds[activeBatchKey].streamId,
          status |-> "active_merged"]
    ELSE IF QueuedAcceptsMerge(S, conversationKey)
    THEN LET queuedBatchKey == Head(S.conversationState[conversationKey].queue) IN
         [store |-> [S EXCEPT !.pendingInbounds[queuedBatchKey] =
                        MergeInto(@, msgid, msgContent)],
          streamId |-> S.pendingInbounds[queuedBatchKey].streamId,
          status |-> "queued_merged"]
    ELSE LET state == S.conversationState[conversationKey]
             seq == state.nextSeq
             batchKey == QueuedBatchKey(conversationKey, seq)
             streamId == S.nextStreamId
             S1 == createStream(S, msgid, conversationKey, batchKey)
         IN [store |-> [S1 EXCEPT
                 !.pendingInbounds = Put(@, batchKey,
                     NewPending(streamId, conversationKey, batchKey, msgid, msgContent)),
                 !.conversationState[conversationKey] =
                     [@ EXCEPT !.nextSeq = seq + 1, !.queue = <<batchKey>>]],
             streamId |-> streamId,
             status |-> "queued_new"]

-----------------------------------------------------------------------------
(* Pruning *)

ExpiredStreams(S) ==
    {id \in DOMAIN S.streams : S.streams[id].updatedAt < now - STREAM_TTL_MS}

ExpiredPendings(S) ==
    {key \in DOMAIN S.pendingInbounds :
        now - S.pendingInbounds[key].createdAt > STREAM_TTL_MS}

(* pendingInbounds.has(active) || streamIdToBatchKey.values().includes(active) *)
ActiveExists(S, conv) ==
    \/ Has(S.pendingInbounds, conv.activeBatchKey)
    \/ \E id \in DOMAIN S.streamIdToBatchKey :
          S.streamIdToBatchKey[id] = conv.activeBatchKey

(* StreamStore.prune(now) *)
prune(S) ==
    LET keptStreams == [id \in DOMAIN S.streams \ ExpiredStreams(S) |-> S.streams[id]]
        \* both loops over msgidToStreamId: a mapping survives only if its stream does
        keptMsgids == [m \in DOMAIN S.msgidToStreamId |->
                          IF S.msgidToStreamId[m] \in DOMAIN keptStreams
                          THEN S.msgidToStreamId[m] ELSE NoStream]
        keptPendings == [key \in DOMAIN S.pendingInbounds \ ExpiredPendings(S) |->
                            S.pendingInbounds[key]]
        S1 == [S EXCEPT !.streams = keptStreams,
                        !.msgidToStreamId = keptMsgids,
                        !.pendingInbounds = keptPendings]
        deadConvs == {c \in DOMAIN S1.conversationState :
                        /\ ~ActiveExists(S1, S1.conversationState[c])
                        /\ S1.conversationState[c].queue = <<>>}
    IN [S1 EXCEPT !.conversationState =
            [c \in DOMAIN @ \ deadConvs |-> @[c]]]

-----------------------------------------------------------------------------
(* The Bot webhook handler, from the dedupe lookup to the reply. Each result  *)
(* carries the store after the handler, the status, the stream id put in the  *)
(* reply, the batch stream concerned, the stream id the dedupe lookup found   *)
(* and the msgid mapping as it stands when the reply is written (jsonOk).     *)

(* the ack stream finished from the start *)
SetAckPlaceholder_Finished == [finished |-> TRUE, started |-> TRUE]

(* s.finished = false; s.started = true (the mutator of the ack stream) *)
SetAckPlaceholder == [finished |-> FALSE, started |-> TRUE]

DedupeLookup_Never(S, msgid) == NoStream

(* the lookup of the dedupe check *)
DedupeLookup(S, msgid) ==
    IF msgid # NoMsgId THEN getStreamByMsgId(S, msgid) ELSE NoStream

(* the same, mapping the msgid to the stream addPendingMessage returned *)
CreateAckStream_MapToBatch(S, msgid, batchStreamId) ==
    LET ackStreamId == S.nextStreamId
        S1 == createStream(S, msgid, NoKey, NoKey)
        S2 == updateStream(S1, ackStreamId, SetAckPlaceholder)
        S3 == setStreamIdForMsgId(S2, msgid, batchStreamId)
    IN addAckStreamForBatch(S3, batchStreamId, ackStreamId)

(* active_merged / queued_merged: the ack stream of this message *)
CreateAckStream(S, msgid, batchStreamId) ==
    LET ackStreamId == S.nextStreamId
        S1 == createStream(S, msgid, NoKey, NoKey)
        S2 == updateStream(S1, ackStreamId, SetAckPlaceholder)
        S3 == setStreamIdForMsgId(S2, msgid, ackStreamId)
    IN addAckStreamForBatch(S3, batchStreamId, ackStreamId)

(* handleWecomWebhookRequest, "Handle Message (with Debounce)" *)
HandleMessage(S, conversationKey, msgid, msgContent) ==
    LET existingStreamId == DedupeLookup(S, msgid) IN
    IF existingStreamId # NoStream
    THEN [store |-> S, status |-> "duplicate", streamId |-> existingStreamId,
          batchStreamId |-> NoStream, observed |-> existingStreamId,
          mappedAtSend |-> getStreamByMsgId(S, msgid)]
    ELSE LET r == addPendingMessage(S, conversationKey, msgid, msgContent) IN
         IF r.status \in {"active_new", "queued_new"}
         THEN [store |-> r.store, status |-> r.status, streamId |-> r.streamId,
               batchStreamId |-> r.streamId, observed |-> NoStream,
               mappedAtSend |-> getStreamByMsgId(r.store, msgid)]
         ELSE LET S1 == CreateAckStream(r.store, msgid, r.streamId) IN
              [store |-> S1, status |-> r.status, streamId |-> r.store.nextStreamId,
               batchStreamId |-> r.streamId, observed |-> NoStream,
               mappedAtSend |-> getStreamByMsgId(S1, msgid)]

(* handleWecomWebhookRequest, eventtype template_card_event: the empty reply  *)
(* is written first, then the stream is created and the agent started.        *)
HandleTemplateCardEvent(S, msgid) ==
    LET existingStreamId == DedupeLookup(S, msgid) IN
    IF existingStreamId # NoStream
    THEN [store |-> S, status |-> "card_duplicate", streamId |-> NoStream,
          batchStreamId |-> NoStream, observed |-> existingStreamId,
          mappedAtSend |-> getStreamByMsgId(S, msgid)]
    ELSE LET streamId == S.nextStreamId
             S1 == markStarted(createStream(S, msgid, NoKey, NoKey), streamId)
             S2 == startAgentForStream(S1, streamId, NoKey, NoKey, <<0>>,
                       IF msgid # NoMsgId THEN <<msgid>> ELSE <<>>)
         IN [store |-> S2, status |-> "card", streamId |-> NoStream,
             batchStreamId |-> streamId, observed |-> NoStream,
             mappedAtSend |-> getStreamByMsgId(S, msgid)]

(* handleWecomWebhookRequest, msgtype stream: the poll names the stream id of  *)
(* the first reply; the answer is built from that stream, or is a finished    *)
(* empty one when the store has no such stream.                               *)
StreamRefresh(S, streamId) ==
    IF Has(S.streams, streamId)
    THEN [id |-> streamId, found |-> TRUE, finish |-> S.streams[streamId].finished]
    ELSE [id |-> streamId, found |-> FALSE, finish |-> TRUE]

-----------------------------------------------------------------------------
(* The access-token cache of the Agent API client *)

TOKEN_REFRESH_BUFFER_MS == 60000

(* json.expires_in ?? 7200 *)
DEFAULT_EXPIRES_IN == 7200

(* `${agent.corpId}:${agent.agentId}` of the accounts that call *)
TokenKeys == {"corpA:1", "corpA:2"}

Callers == {1, 2, 3}

(* token: "" *)
NoToken == 0
(* refreshPromise: null *)
NoPromise == 0

NewTokenCache == [token |-> NoToken, expiresAt |-> 0, refreshPromise |-> NoPromise]

(* tokenCaches.get(cacheKey), a new cache being set when there is none *)
CacheOf(caches, cacheKey) ==
    IF Has(caches, cacheKey) THEN caches[cacheKey] ELSE NewTokenCache

(* cache.token && cache.expiresAt > now + LIMITS.TOKEN_REFRESH_BUFFER_MS *)
IsFresh(cache, t) ==
    /\ cache.token # NoToken
    /\ cache.expiresAt > t + TOKEN_REFRESH_BUFFER_MS

(* getAccessToken without the test of the refresh in flight *)
RefreshInFlight_Never(cache) == FALSE

(* if (cache.refreshPromise) *)
RefreshInFlight(cache) == cache.refreshPromise # NoPromise

(* What the token endpoint can answer to the request of refresh p: the fetch *)
(* fails (network, timeout), or a JSON body arrives with an access_token or  *)
(* without one, and with expires_in or without it. The token of refresh p is *)
(* the number p.                                                             *)
GetTokenAnswers(p) ==
    {[fetched |-> FALSE, access_token |-> NoToken, expires_in |-> <<>>],
     [fetched |-> TRUE, access_token |-> NoToken, expires_in |-> <<>>],
     [fetched |-> TRUE, access_token |-> p, expires_in |-> <<>>],
     [fetched |-> TRUE, access_token |-> p, expires_in |-> <<30>>]}

ExpiresIn(json) ==
    IF json.expires_in = <<>> THEN DEFAULT_EXPIRES_IN ELSE json.expires_in[1]

(* the refresh with a finally block that leaves the marker *)
Finally_KeepMarker(cache) == cache

(* finally { cache.refreshPromise = null } *)
Finally(cache) == [cache EXCEPT !.refreshPromise = NoPromise]

(* The body of the refresh from the answer on: the cache it leaves and how *)
(* its promise settles.                                                    *)
RefreshBody(cache, answer, t) ==
    IF ~answer.fetched
    THEN [cache |-> Finally(cache), state |-> "rejected",
          token |-> NoToken, error |-> "fetch failed"]
    ELSE IF answer.access_token = NoToken
    THEN [cache |-> Finally(cache), state |-> "rejected",
          token |-> NoToken, error |-> "gettoken failed"]
    ELSE [cache |-> Finally([cache EXCEPT
                        !.token = answer.access_token,
                        !.expiresAt = t + ExpiresIn(answer) * 1000]),
          state |-> "fulfilled",
          token |-> answer.access_token, error |-> ""]

IdleCaller == [pc |-> "idle", cacheKey |-> "", promise |-> NoPromise,
               token |-> NoToken, error |-> ""]

-----------------------------------------------------------------------------
(* Texts. A text is a sequence of pieces: the text of a delivered block, a   *)
(* fixed text of the program (a prompt, a hint), or white space; a piece has *)
(* a length in bytes, so that a text can be cut at a byte position.          *)

STREAM_MAX_BYTES == 20480
STREAM_MAX_DM_BYTES == 200000
BOT_WINDOW_MS == 6 * 60 * 1000
BOT_SWITCH_MARGIN_MS == 30 * 1000

EmptyText == <<>>

Piece(kind, n, bytes) == <<[kind |-> kind, n |-> n, bytes |-> bytes]>>

(* "\n\n" *)
Separator == Piece("space", 0, 2)

RECURSIVE ByteLength(_)
ByteLength(text) ==
    IF text = <<>> THEN 0 ELSE Head(text).bytes + ByteLength(Tail(text))

RECURSIVE DropBytes(_, _)
(* buf.subarray(n): the text without its first n bytes *)
DropBytes(text, n) ==
    IF n = 0 \/ text = <<>> THEN text
    ELSE IF Head(text).bytes <= n THEN DropBytes(Tail(text), n - Head(text).bytes)
    ELSE <<[Head(text) EXCEPT !.bytes = @ - n]>> \o Tail(text)

(* truncateUtf8Bytes: the text when it fits, else its last maxBytes bytes *)
truncateUtf8Bytes(text, maxBytes) ==
    IF ByteLength(text) <= maxBytes THEN text
    ELSE DropBytes(text, ByteLength(text) - maxBytes)

RECURSIVE TrimStart(_)
TrimStart(text) ==
    IF text # <<>> /\ Head(text).kind = "space" THEN TrimStart(Tail(text)) ELSE text

RECURSIVE TrimEnd(_)
TrimEnd(text) ==
    IF text # <<>> /\ text[Len(text)].kind = "space"
    THEN TrimEnd(SubSeq(text, 1, Len(text) - 1)) ELSE text

(* String.prototype.trim *)
Trim(text) == TrimEnd(TrimStart(text))

(* `${a}\n\n${b}`.trim() when a is not empty, b.trim() otherwise *)
JoinTrim(a, b) == IF a # EmptyText THEN Trim(a \o Separator \o b) ELSE Trim(b)

-----------------------------------------------------------------------------
(* The stream state an agent run writes: the fields of StreamState about    *)
(* content and fallback, kept in details[streamId] next to streams[streamId] *)

(* fixed texts of the program *)
FixedText(name) == Piece(name, 0, 60)

NewDetails == [createdAt |-> now, content |-> EmptyText, fallbackMode |-> "",
               dmContent |-> EmptyText, agentMediaKeys |-> {},
               finalDeliveredAt |-> FALSE, error |-> "", images |-> {}]

(* the state the webhook handler gives an ack stream *)
AckDetails == [NewDetails EXCEPT !.content = FixedText("mergedQueuedPlaceholder")]

(* The store with the details and the messages sent out, so that calls compose *)
RSt == [store |-> St, details |-> details, outbox |-> outbox]

SetRStore(R) ==
    /\ SetStore(R.store)
    /\ details' = R.details
    /\ outbox' = R.outbox

(* streamStore.getStream(streamId) *)
HasStream(R, streamId) == Has(R.store.streams, streamId)

(* streamStore.updateStream with a mutator over all the fields of the state *)
UpdateRich(R, streamId, mutator) ==
    IF HasStream(R, streamId)
    THEN [R EXCEPT !.store = updateStream(@, streamId, mutator),
                   !.details[streamId] = ApplyMutator(mutator, @)]
    ELSE R

(* useActiveReplyOnce(streamId, fn): the POST to the response_url; pushOk *)
(* tells whether it succeeds. The active-reply store has policy "multi".   *)
UseActiveReply(R, streamId, body, pushOk) ==
    [R EXCEPT !.outbox = Append(@, [via |-> "response_url", to |-> streamId,
                                    body |-> body, ok |-> pushOk])]

(* sendBotFallbackPromptNow inside its caller's try/catch: nothing is sent *)
(* without a response_url.                                                 *)
sendBotFallbackPromptNow(R, streamId, text, pushOk) ==
    IF ~cfg.responseUrl THEN R
    ELSE UseActiveReply(R, streamId, truncateUtf8Bytes(text, STREAM_MAX_BYTES), pushOk)

(* sendAgentDmMedia / sendAgentDmText through the Agent API; dmOk tells *)
(* whether the call succeeds.                                            *)
SendAgentDm(R, via, body, dmOk) ==
    [R EXCEPT !.outbox = Append(@, [via |-> via, to |-> cfg.userId,
                                    body |-> body, ok |-> dmOk])]

buildFallbackPrompt(kind, agentConfigured, userId) ==
    IF ~agentConfigured THEN FixedText("prompt:agent-not-configured")
    ELSE IF userId = "" THEN FixedText("prompt:no-userid")
    ELSE IF kind = "media" THEN FixedText("prompt:media")
    ELSE IF kind = "timeout" THEN FixedText("prompt:timeout")
    ELSE FixedText("prompt:error")

(* appendDmContent with the cap of the visible content *)
appendDmContent_BotCap(state, text) ==
    [dmContent |-> truncateUtf8Bytes(JoinTrim(state.dmContent, text),
                                     STREAM_MAX_BYTES)]

(* appendDmContent as a mutator *)
appendDmContent(state, text) ==
    [dmContent |-> truncateUtf8Bytes(JoinTrim(state.dmContent, text),
                                     STREAM_MAX_DM_BYTES)]

(* the mutator of the template card branch *)
SetCardSent == [finished |-> TRUE, content |-> FixedText("card-sent")]

(* the mutators of the fallback switches *)
SetFallback(mode, prompt) ==
    [fallbackMode |-> mode, finished |-> TRUE, content |-> prompt]

(* the text accumulation that also reopens the stream *)
AccumulateContent_Reopen(state, text) ==
    [content |-> truncateUtf8Bytes(JoinTrim(state.content, text), STREAM_MAX_BYTES),
     finished |-> FALSE]

(* the mutator of the text accumulation *)
AccumulateContent(state, text) ==
    [content |-> truncateUtf8Bytes(JoinTrim(state.content, text), STREAM_MAX_BYTES)]

(* !current.fallbackMode && !current.finished && now >= switchAt *)
NearTimeout(state, finished) ==
    /\ state.fallbackMode = ""
    /\ ~finished
    /\ now >= state.createdAt + BOT_WINDOW_MS - BOT_SWITCH_MARGIN_MS

(* the test of the media already sent that never finds it *)
AlreadySent_Never(state, mediaPath) == FALSE

(* current.agentMediaKeys.includes(mediaPath) *)
AlreadySent(state, mediaPath) == mediaPath \in state.agentMediaKeys

(* deliver, the timeout branch: the switch, the prompt pushed, return *)
TimeoutFallback(R, streamId, pushOk) ==
    LET prompt == buildFallbackPrompt("timeout", cfg.agentConfigured, cfg.userId)
        R1 == UpdateRich(R, streamId, SetFallback("timeout", prompt))
    IN sendBotFallbackPromptNow(R1, streamId, prompt, pushOk)

(* deliver, one non-image media: the file by DM unless already sent, then *)
(* the switch to media fallback unless the stream is in fallback           *)
NonImageMedia(R, streamId, mediaPath, pushOk, dmOk) ==
    LET current == R.details[streamId]
        send == /\ cfg.agentConfigured
                /\ ~AlreadySent(current, mediaPath)
                /\ cfg.userId # ""
        R1 == IF send THEN SendAgentDm(R, "dm_media", Piece(mediaPath, 0, 1), dmOk)
              ELSE R
        R2 == IF send /\ dmOk
              THEN UpdateRich(R1, streamId,
                     [agentMediaKeys |-> current.agentMediaKeys \cup {mediaPath}])
              ELSE R1
        prompt == buildFallbackPrompt("media", cfg.agentConfigured, cfg.userId)
    IN IF current.fallbackMode = ""
       THEN sendBotFallbackPromptNow(
               UpdateRich(R2, streamId, SetFallback("media", prompt)),
               streamId, prompt, pushOk)
       ELSE R2

RECURSIVE MediaLoop(_, _, _, _, _)
(* deliver, the loop over mediaUrls: an image is pushed on current.images, the *)
(* first non-image media ends the callback. The result tells whether the       *)
(* callback has returned.                                                      *)
MediaLoop(R, streamId, mediaUrls, pushOk, dmOk) ==
    IF mediaUrls = <<>> THEN [R |-> R, returned |-> FALSE]
    ELSE IF Head(mediaUrls).image
    THEN MediaLoop([R EXCEPT !.details[streamId].images = @ \cup {Head(mediaUrls).path}],
                   streamId, Tail(mediaUrls), pushOk, dmOk)
    ELSE [R |-> NonImageMedia(R, streamId, Head(mediaUrls).path, pushOk, dmOk),
          returned |-> TRUE]

(* deliver from `const current = streamStore.getStream(streamId)` on *)
DeliverText(R, streamId, text, mediaUrls, pushOk, dmOk) ==
    IF ~HasStream(R, streamId) THEN R
    ELSE
    LET R1 == IF Trim(text) # EmptyText
              THEN UpdateRich(R, streamId, appendDmContent(R.details[streamId], text))
              ELSE R
    IN IF NearTimeout(R1.details[streamId], R1.store.streams[streamId].finished)
       THEN TimeoutFallback(R1, streamId, pushOk)
       ELSE LET m == MediaLoop(R1, streamId, mediaUrls, pushOk, dmOk) IN
            IF m.returned THEN m.R
            ELSE IF m.R.details[streamId].fallbackMode # "" THEN m.R
            ELSE UpdateRich(m.R, streamId,
                            AccumulateContent(m.R.details[streamId], text))

(* the text a template card is turned into when it cannot be sent as a card *)
CardAsText(text) == Piece("card-text", Head(text).n, 40)

(* deliver: the callback the dispatcher calls with one block of the reply. *)
(* The block is prose: the markdown table conversion and the protection of *)
(* <think> spans leave it as it is.                                        *)
deliver(R, streamId, payload, pushOk, dmOk) ==
    LET asCard == payload.card /\ cfg.responseUrl /\ cfg.chatType # "group"
        R0 == IF asCard THEN UseActiveReply(R, streamId, payload.text, pushOk) ELSE R
    IN IF asCard /\ pushOk
       THEN UpdateRich(R0, streamId, SetCardSent)
       ELSE DeliverText(R0, streamId,
                        IF payload.card /\ ~asCard THEN CardAsText(payload.text)
                        ELSE payload.text,
                        payload.mediaUrls, pushOk, dmOk)

-----------------------------------------------------------------------------
(* State machine *)

IdleReq == [pc |-> "idle", kind |-> "", msgid |-> NoMsgId,
            conversationKey |-> NoKey, msgContent |-> 0, peerStream |-> NoStream]

NoReply == [kind |-> "", msgid |-> NoMsgId, conversationKey |-> NoKey,
            status |-> "none", streamId |-> NoStream, batchStreamId |-> NoStream,
            observed |-> NoStream, mappedAtSend |-> NoStream,
            peerStream |-> NoStream]

StoreInit ==
    /\ streams = EmptyMap
    /\ msgidToStreamId = [m \in MsgIds |-> NoStream]
    /\ pendingInbounds = EmptyMap
    /\ conversationState = EmptyMap
    /\ streamIdToBatchKey = EmptyMap
    /\ batchStreamIdToAckStreamIds = EmptyMap
    /\ nextStreamId = 1
    /\ reqs = [h \in Handlers |-> IdleReq]
    /\ nPosts = 0
    /\ running = {}
    /\ agentRuns = <<>>
    /\ lastReply = NoReply
    /\ evicted = {}

TokenInit ==
    /\ clock = 0
    /\ tokenCaches = EmptyMap
    /\ refreshes = <<>>
    /\ callers = [c \in Callers |-> IdleCaller]
    /\ nCalls = 0

(* no run is followed in detail *)
RunIdle ==
    /\ details = EmptyMap
    /\ dispatching = {}
    /\ outbox = <<>>
    /\ nBlocks = 0
    /\ cfg = [streamId |-> NoStream, agentConfigured |-> TRUE, userId |-> "alice",
              chatType |-> "group", responseUrl |-> TRUE]

(* no handler registered *)
TargetsInit ==
    /\ webhookTargets = EmptyMap
    /\ agentTargets = EmptyMap
    /\ pruneInterval = FALSE
    /\ registrations = <<>>

(* the first millisecond the agent webhook can read: Date.now() is positive *)
AgentEpoch == 1

IdleAgentReq == [pc |-> "idle", msgId |-> ""]

(* the agent webhook before its first callback *)
AgentInit ==
    /\ recentAgentMsgIds = EmptyMap
    /\ agentReqs = [h \in Handlers |-> IdleAgentReq]
    /\ processed = <<>>
    /\ agentNow = AgentEpoch
    /\ nAgentPosts = 0

NoCall == [fn |-> ""]
NotReturned == [done |-> FALSE]

(* no function is being applied *)
CallIdle ==
    /\ call = NoCall
    /\ returned = NotReturned

(* no timer armed *)
TimersInit ==
    /\ timers = {}
    /\ handles = EmptyMap

(* usedAt is not set *)
NoTime == 0 - 1

IdleUse == [pc |-> "idle", streamId |-> NoStream, obj |-> 0,
            responseUrl |-> <<>>, error |-> ""]

(* no response_url stored, no call of use *)
ReplyInit ==
    /\ activeReplies = EmptyMap
    /\ uses = [c \in Handlers |-> IdleUse]
    /\ replyNow = 0
    /\ nReplyCalls = 0

OtherInit == TargetsInit /\ AgentInit /\ CallIdle /\ TimersInit /\ ReplyInit

Init == StoreInit /\ TokenInit /\ RunIdle /\ OtherInit

Admitting(status) ==
    status \in {"active_new", "queued_new", "active_merged", "queued_merged", "card"}

(* handleWecomWebhookRequest after readJsonBody, signature check and decrypt: *)
(* the branch on msgtype. The content of a message is the number of its POST. *)
Handle(S, req) ==
    IF req.kind = "message"
    THEN HandleMessage(S, req.conversationKey, req.msgid, req.msgContent)
    ELSE HandleTemplateCardEvent(S, req.msgid)

ReplyOf(req, r) ==
    [kind |-> req.kind, msgid |-> req.msgid,
     conversationKey |-> req.conversationKey,
     status |-> r.status, streamId |-> r.streamId,
     batchStreamId |-> r.batchStreamId,
     observed |-> r.observed,
     mappedAtSend |-> r.mappedAtSend,
     peerStream |-> req.peerStream]

(* A POST is received and handled with no other handler in flight. *)
Post(kind, msgid, conversationKey) ==
    /\ nPosts < MaxPosts
    /\ \A h \in Handlers : reqs[h].pc = "idle"
    /\ nPosts' = nPosts + 1
    /\ LET req == [pc |-> "body", kind |-> kind, msgid |-> msgid,
                   conversationKey |-> conversationKey,
                   msgContent |-> nPosts + 1, peerStream |-> NoStream]
           r == Handle(St, req)
       IN /\ SetStore(r.store)
          /\ lastReply' = ReplyOf(req, r)
    /\ UNCHANGED <<reqs, evicted>>
    /\ UNCHANGED <<tokenVars, runVars, otherVars>>

(* A POST arrives; the handler awaits readJsonBody. The request takes the *)
(* lowest free slot.                                                      *)
PostArrive(h, kind, msgid, conversationKey) ==
    /\ reqs[h].pc = "idle"
    /\ \A g \in Handlers : g < h => reqs[g].pc # "idle"
    /\ nPosts < MaxHttpPosts
    /\ nPosts' = nPosts + 1
    /\ reqs' = [reqs EXCEPT ![h] = [pc |-> "body", kind |-> kind, msgid |-> msgid,
                                    conversationKey |-> conversationKey,
                                    msgContent |-> nPosts + 1,
                                    peerStream |-> NoStream]]
    /\ UNCHANGED <<streams, msgidToStreamId, pendingInbounds, conversationState,
                   streamIdToBatchKey, batchStreamIdToAckStreamIds, nextStreamId,
                   running, agentRuns, lastReply, evicted>>
    /\ UNCHANGED <<tokenVars, runVars, otherVars>>

(* The body has been read: the rest of the handler runs without suspending. *)
HandlePost(h) ==
    /\ reqs[h].pc = "body"
    /\ LET req == reqs[h]
           r == Handle(St, req)
       IN /\ SetStore(r.store)
          /\ lastReply' = ReplyOf(req, r)
          /\ reqs' = [g \in Handlers |->
                        IF g = h THEN IdleReq
                        ELSE IF /\ reqs[g].pc = "body"
                                /\ req.msgid # NoMsgId
                                /\ reqs[g].msgid = req.msgid
                                /\ Admitting(r.status)
                             THEN [reqs[g] EXCEPT !.peerStream =
                                     IF r.status = "card" THEN r.batchStreamId
                                     ELSE r.streamId]
                             ELSE reqs[g]]
    /\ UNCHANGED <<nPosts, evicted>>
    /\ UNCHANGED <<tokenVars, runVars, otherVars>>

(* A debounce timer fires. *)
TimerFire(batchKey) ==
    /\ Has(pendingInbounds, batchKey)
    /\ pendingInbounds[batchKey].timeout
    /\ SetStore(requestFlush(St, batchKey))
    /\ UNCHANGED <<reqs, nPosts, lastReply, evicted>>
    /\ UNCHANGED <<tokenVars, runVars, otherVars>>

(* The agent delivers a block: the stream is updated (updatedAt refreshed). *)
AgentDeliver(streamId) ==
    /\ streamId \in running
    /\ Has(streams, streamId)
    /\ streams[streamId].updatedAt < now
    /\ SetStore(updateStream(St, streamId, Identity))
    /\ UNCHANGED <<reqs, nPosts, lastReply, evicted>>
    /\ UNCHANGED <<tokenVars, runVars, otherVars>>

RECURSIVE UpdateAckStreams(_, _)
UpdateAckStreams(S, ackStreamIds) ==
    IF ackStreamIds = <<>> THEN S
    ELSE UpdateAckStreams(updateStream(S, Head(ackStreamIds), SetFinished),
                          Tail(ackStreamIds))

(* startAgentForStream, from markFinished to onStreamFinished *)
Finalize(S, streamId) ==
    LET S1 == markFinished(S, streamId)
        ackStreamIds == AckStreamsOf(S1, streamId)
        S2 == UpdateAckStreams(drainAckStreamsForBatch(S1, streamId), ackStreamIds)
    IN onStreamFinished(S2, streamId)

(* the stream is written finished and the queue advanced, nothing else:       *)
(* the catch of flushPending (agent failure), the unauthorized-command return *)
(* and the local-file returns of startAgentForStream                          *)
Abort(S, streamId) ==
    onStreamFinished(updateStream(S, streamId, SetFinished), streamId)

EndRun(S, streamId) == [S EXCEPT !.running = @ \ {streamId}]

(* The agent run returns normally. *)
AgentFinish(streamId) ==
    /\ streamId \in running
    /\ SetStore(EndRun(Finalize(St, streamId), streamId))
    /\ UNCHANGED <<reqs, nPosts, lastReply, evicted>>
    /\ UNCHANGED <<tokenVars, runVars, otherVars>>

(* The agent run fails or returns early. *)
AgentAbort(streamId) ==
    /\ streamId \in running
    /\ SetStore(EndRun(Abort(St, streamId), streamId))
    /\ UNCHANGED <<reqs, nPosts, lastReply, evicted>>
    /\ UNCHANGED <<tokenVars, runVars, otherVars>>

(* Time passes by one step. *)
Tick ==
    /\ streams' = [id \in DOMAIN streams |->
                     [streams[id] EXCEPT !.updatedAt = Aged(@)]]
    /\ pendingInbounds' = [key \in DOMAIN pendingInbounds |->
                     [pendingInbounds[key] EXCEPT !.createdAt = Aged(@)]]
    /\ \/ streams' # streams
       \/ pendingInbounds' # pendingInbounds
    /\ UNCHANGED <<msgidToStreamId, conversationState, streamIdToBatchKey,
                   batchStreamIdToAckStreamIds, nextStreamId,
                   reqs, nPosts, running, agentRuns, lastReply, evicted>>
    /\ UNCHANGED <<tokenVars, runVars, otherVars>>

(* The prune interval fires. *)
Prune ==
    /\ UNCHANGED <<tokenVars, runVars, otherVars>>
    /\ LET S1 == prune(St)
           gone == {m \in MsgIds : msgidToStreamId[m] # NoStream
                                   /\ S1.msgidToStreamId[m] = NoStream}
       IN /\ S1 # St
          /\ SetStore(S1)
          /\ evicted' = evicted \cup gone
          /\ reqs' = [h \in Handlers |->
                        IF reqs[h].msgid \in gone
                        THEN [reqs[h] EXCEPT !.peerStream = NoStream] ELSE reqs[h]]
          /\ UNCHANGED <<nPosts, lastReply>>

(* EP gives every new message a fresh msgid and repeats it on a retry: an     *)
(* inbound msgid is one already seen or the next unused one, or is missing.   *)
SeenMsgIds ==
    {m \in MsgIds : \/ msgidToStreamId[m] # NoStream
                    \/ m \in evicted
                    \/ \E h \in Handlers : reqs[h].msgid = m}

InboundMsgIds ==
    LET k == Cardinality(SeenMsgIds) IN
    SeenMsgIds \cup {NoMsgId} \cup (IF k < Len(MsgIdOrder) THEN {MsgIdOrder[k + 1]} ELSE {})

MessageInputs ==
    {<<"message", msgid, c>> : msgid \in InboundMsgIds, c \in ConversationKeys}

CardInputs ==
    {<<"template_card_event", msgid, NoKey>> : msgid \in InboundMsgIds}

(* the POSTs that carry a msgid, the ones the dedupe applies to *)
WithMsgId(inputs) == {in \in inputs : in[2] # NoMsgId}

BatchKeys ==
    ConversationKeys
    \cup {QueuedBatchKey(c, seq) : c \in ConversationKeys, seq \in 1..(MaxPosts + 1)}

Background ==
    \/ \E batchKey \in BatchKeys : TimerFire(batchKey)
    \/ \E streamId \in running : AgentDeliver(streamId)
    \/ \E streamId \in running : AgentFinish(streamId)
    \/ \E streamId \in running : AgentAbort(streamId)
    \/ Tick
    \/ Prune

Next ==
    \/ \E in \in MessageInputs : Post(in[1], in[2], in[3])
    \/ Background

Spec == Init /\ [][Next]_vars

(* The same program with two webhook requests in flight at once, for POSTs *)
(* of messages and of template card events that carry a msgid.             *)
NextHttp ==
    \/ \E h \in Handlers, in \in WithMsgId(MessageInputs \cup CardInputs) :
          PostArrive(h, in[1], in[2], in[3])
    \/ \E h \in Handlers : HandlePost(h)
    \/ Background

SpecHttp == Init /\ [][NextHttp]_vars

-----------------------------------------------------------------------------
(* The debounce timers of the StreamStore, one by one: the timers armed by  *)
(* setTimeout and not yet fired or cleared, and the handle each pending    *)
(* batch keeps in its timeout field. A timer is named by the number of the *)
(* POST whose addPendingMessage armed it.                                  *)

DEFAULT_DEBOUNCE_MS == 500

MaxDebouncePosts == 3

(* debounceMs of the account configuration is not set *)
NoDebounce == 0 - 1

DebounceInputs == {NoDebounce, 2 * DEFAULT_DEBOUNCE_MS}

Tm == [timers |-> timers, handles |-> handles]

SetTimers(T) ==
    /\ timers' = T.timers
    /\ handles' = T.handles

(* setTimeout(() => this.requestFlush(batchKey), ms) *)
setTimeout(T, id, batchKey, ms) ==
    [T EXCEPT !.timers = @ \cup {[id |-> id, batchKey |-> batchKey, ms |-> ms]}]

(* clearTimeout(handle) *)
clearTimeout(T, id) == [T EXCEPT !.timers = {t \in @ : t.id # id}]

(* timeout: setTimeout(...) of a pending entry put under batchKey *)
ArmNew(T, batchKey, id, ms) ==
    [setTimeout(T, id, batchKey, ms) EXCEPT !.handles = Put(@, batchKey, id)]

(* the same without the clearTimeout *)
Rearm_NoClear(T, batchKey, id, ms) ==
    [setTimeout(T, id, batchKey, ms) EXCEPT !.handles = Put(@, batchKey, id)]

(* if (pending.timeout) clearTimeout(pending.timeout);                     *)
(* pending.timeout = setTimeout(...)                                       *)
Rearm(T, batchKey, id, ms) ==
    LET T1 == IF Has(T.handles, batchKey)
              THEN clearTimeout(T, T.handles[batchKey]) ELSE T
    IN [setTimeout(T1, id, batchKey, ms) EXCEPT !.handles = Put(@, batchKey, id)]

(* if (pending.timeout) { clearTimeout(pending.timeout); pending.timeout = null } *)
Disarm(T, batchKey) ==
    IF Has(T.handles, batchKey)
    THEN [clearTimeout(T, T.handles[batchKey]) EXCEPT !.handles = Delete(@, batchKey)]
    ELSE T

(* debounceMs ?? LIMITS.DEFAULT_DEBOUNCE_MS *)
EffectiveDebounceMs(debounceMs) ==
    IF debounceMs = NoDebounce THEN DEFAULT_DEBOUNCE_MS ELSE debounceMs

(* the timers after addPendingMessage has returned r: a new batch arms its  *)
(* first timer, a merge clears the timer of the batch and arms a fresh one *)
addPendingTimers(T, r, id, debounceMs) ==
    LET batchKey == r.store.streamIdToBatchKey[r.streamId]
        effectiveDebounceMs == EffectiveDebounceMs(debounceMs)
    IN IF r.status \in {"active_new", "queued_new"}
       THEN ArmNew(T, batchKey, id, effectiveDebounceMs)
       ELSE Rearm(T, batchKey, id, effectiveDebounceMs)

(* the timers after the message handler: a duplicate arms nothing *)
HandleMessageTimers(T, S, conversationKey, msgid, msgContent, debounceMs) ==
    IF DedupeLookup(S, msgid) # NoStream THEN T
    ELSE addPendingTimers(T, addPendingMessage(S, conversationKey, msgid, msgContent),
                          msgContent, debounceMs)

(* the timers after requestFlush(batchKey): both branches clear the timer  *)
(* the pending batch holds (requestFlush for a batch that waits its turn,  *)
(* flushPending for the active batch)                                      *)
requestFlushTimers(T, S, batchKey) ==
    IF ~Has(S.pendingInbounds, batchKey) THEN T ELSE Disarm(T, batchKey)

RECURSIVE DisarmAll(_, _)
DisarmAll(T, batchKeys) ==
    IF batchKeys = {} THEN T
    ELSE LET batchKey == CHOOSE k \in batchKeys : TRUE
         IN DisarmAll(Disarm(T, batchKey), batchKeys \ {batchKey})

(* the timers after a call that took the store from S to S1: flushPending  *)
(* and prune clear the timer of every pending entry they delete            *)
ClearDeleted(T, S, S1) ==
    DisarmAll(T, DOMAIN S.pendingInbounds \ DOMAIN S1.pendingInbounds)

(* A POST of a message under an account with the given debounceMs.         *)
DebouncePost(msgid, conversationKey, debounceMs) ==
    /\ nPosts < MaxDebouncePosts
    /\ nPosts' = nPosts + 1
    /\ LET req == [pc |-> "body", kind |-> "message", msgid |-> msgid,
                   conversationKey |-> conversationKey,
                   msgContent |-> nPosts + 1, peerStream |-> NoStream]
           r == Handle(St, req)
       IN /\ SetStore(r.store)
          /\ lastReply' = ReplyOf(req, r)
          /\ SetTimers(HandleMessageTimers(Tm, St, conversationKey, msgid,
                                           nPosts + 1, debounceMs))
    /\ UNCHANGED <<reqs, evicted>>
    /\ UNCHANGED <<tokenVars, runVars, targetVars, agentVars, callVars, replyVars>>

(* An armed timer fires: it is armed no more and runs requestFlush.        *)
DebounceFire(t) ==
    /\ t \in timers
    /\ LET T1 == [Tm EXCEPT !.timers = @ \ {t}] IN
       /\ SetStore(requestFlush(St, t.batchKey))
       /\ SetTimers(requestFlushTimers(T1, St, t.batchKey))
    /\ UNCHANGED <<reqs, nPosts, lastReply, evicted>>
    /\ UNCHANGED <<tokenVars, runVars, targetVars, agentVars, callVars, replyVars>>

(* The agent run returns; onStreamFinished may flush the promoted batch.   *)
DebounceFinish(streamId) ==
    /\ streamId \in running
    /\ LET S1 == EndRun(Finalize(St, streamId), streamId) IN
       /\ SetStore(S1)
       /\ SetTimers(ClearDeleted(Tm, St, S1))
    /\ UNCHANGED <<reqs, nPosts, lastReply, evicted>>
    /\ UNCHANGED <<tokenVars, runVars, targetVars, agentVars, callVars, replyVars>>

(* The prune interval fires: the timers of the pruned batches are cleared. *)
DebouncePrune ==
    /\ LET S1 == prune(St)
           gone == {m \in MsgIds : msgidToStreamId[m] # NoStream
                                   /\ S1.msgidToStreamId[m] = NoStream}
       IN /\ S1 # St
          /\ SetStore(S1)
          /\ SetTimers(ClearDeleted(Tm, St, S1))
          /\ evicted' = evicted \cup gone
    /\ UNCHANGED <<reqs, nPosts, lastReply>>
    /\ UNCHANGED <<tokenVars, runVars, targetVars, agentVars, callVars, replyVars>>

NextDebounce ==
    \/ \E in \in MessageInputs, debounceMs \in DebounceInputs :
          DebouncePost(in[2], in[3], debounceMs)
    \/ \E t \in timers : DebounceFire(t)
    \/ \E streamId \in running : DebounceFinish(streamId)
    \/ Tick
    \/ DebouncePrune

SpecDebounce == Init /\ [][NextDebounce]_vars

-----------------------------------------------------------------------------
(* The StreamStore with a caller that repeats onStreamFinished *)

MaxLatePosts == 3

(* onStreamFinished(streamId) is called once more, or late, for a stream    *)
(* whose run has returned and has called it before.                         *)
LateFinish(streamId) ==
    /\ streamId \notin running
    /\ \E i \in 1..Len(agentRuns) : agentRuns[i].streamId = streamId
    /\ SetStore(onStreamFinished(St, streamId))
    /\ UNCHANGED <<reqs, nPosts, lastReply, evicted>>
    /\ UNCHANGED <<tokenVars, runVars, otherVars>>

NextLate ==
    \/ \E in \in MessageInputs :
          nPosts < MaxLatePosts /\ Post(in[1], in[2], in[3])
    \/ \E batchKey \in BatchKeys : TimerFire(batchKey)
    \/ \E streamId \in running : AgentFinish(streamId)
    \/ \E streamId \in 1..nextStreamId : LateFinish(streamId)
    \/ Tick
    \/ Prune

SpecLate == Init /\ [][NextLate]_vars

-----------------------------------------------------------------------------
(* The program with timers that fire and agent runs that return *)

(* no debounce timer is armed *)
NoTimerArmed ==
    \A key \in DOMAIN pendingInbounds : ~pendingInbounds[key].timeout

(* A debounce timer is due within the debounce delay, which is far shorter  *)
(* than a step of the clock (TickMs): the clock advances by a step only     *)
(* when every armed timer has fired.                                        *)
NextLive ==
    \/ \E in \in MessageInputs : Post(in[1], in[2], in[3])
    \/ \E batchKey \in BatchKeys : TimerFire(batchKey)
    \/ \E streamId \in running : AgentDeliver(streamId)
    \/ \E streamId \in running : AgentFinish(streamId)
    \/ \E streamId \in running : AgentAbort(streamId)
    \/ NoTimerArmed /\ Tick
    \/ Prune

(* setTimeout runs requestFlush for every armed timer, and the run of every *)
(* stream handed to the agent returns (startAgentForStream calls            *)
(* onStreamFinished on each of its paths).                                  *)
Fairness ==
    /\ \A batchKey \in BatchKeys : WF_vars(TimerFire(batchKey))
    /\ \A streamId \in 1..MaxPosts :
          WF_vars(AgentFinish(streamId) \/ AgentAbort(streamId))

SpecLive == Init /\ [][NextLive]_vars /\ Fairness

-----------------------------------------------------------------------------
(* The callers of getAccessToken and the token endpoint *)

MaxCalls == 3
MaxTokenTicks == 1

(* two hours pass between two observations of the clock *)
TokenTickMs == 2 * 60 * 60 * 1000

(* getAccessToken(agent) up to its return: the fresh token, the refresh in  *)
(* flight, or a new refresh whose request to the token endpoint is sent.    *)
(* The call is made by the first caller that is not awaiting one.           *)
GetAccessToken(c, cacheKey) ==
    /\ callers[c].pc # "awaiting"
    /\ \A b \in Callers : b < c => callers[b].pc = "awaiting"
    /\ nCalls < MaxCalls
    /\ nCalls' = nCalls + 1
    /\ LET cache == CacheOf(tokenCaches, cacheKey) IN
       IF IsFresh(cache, clock)
       THEN /\ tokenCaches' = Put(tokenCaches, cacheKey, cache)
            /\ callers' = [callers EXCEPT ![c] =
                   [pc |-> "done", cacheKey |-> cacheKey, promise |-> NoPromise,
                    token |-> cache.token, error |-> ""]]
            /\ UNCHANGED refreshes
       ELSE IF RefreshInFlight(cache)
       THEN /\ tokenCaches' = Put(tokenCaches, cacheKey, cache)
            /\ callers' = [callers EXCEPT ![c] =
                   [pc |-> "awaiting", cacheKey |-> cacheKey,
                    promise |-> cache.refreshPromise,
                    token |-> NoToken, error |-> ""]]
            /\ UNCHANGED refreshes
       ELSE LET p == Len(refreshes) + 1 IN
            /\ refreshes' = Append(refreshes,
                   [cacheKey |-> cacheKey, state |-> "pending",
                    token |-> NoToken, error |-> ""])
            /\ tokenCaches' = Put(tokenCaches, cacheKey,
                   [cache EXCEPT !.refreshPromise = p])
            /\ callers' = [callers EXCEPT ![c] =
                   [pc |-> "awaiting", cacheKey |-> cacheKey, promise |-> p,
                    token |-> NoToken, error |-> ""]]
    /\ UNCHANGED clock
    /\ UNCHANGED <<storeVars, runVars, otherVars>>

(* The request of refresh p is answered or fails: the refresh runs to its end. *)
RefreshSettle(p, answer) ==
    /\ refreshes[p].state = "pending"
    /\ LET cacheKey == refreshes[p].cacheKey
           r == RefreshBody(tokenCaches[cacheKey], answer, clock)
       IN /\ tokenCaches' = [tokenCaches EXCEPT ![cacheKey] = r.cache]
          /\ refreshes' = [refreshes EXCEPT ![p] =
                 [cacheKey |-> cacheKey, state |-> r.state,
                  token |-> r.token, error |-> r.error]]
    /\ UNCHANGED <<clock, callers, nCalls>>
    /\ UNCHANGED <<storeVars, runVars, otherVars>>

(* A caller awaiting a settled refresh resumes with its result. *)
CallerResume(c) ==
    /\ callers[c].pc = "awaiting"
    /\ refreshes[callers[c].promise].state # "pending"
    /\ callers' = [callers EXCEPT ![c] =
           [@ EXCEPT !.pc = "done",
                     !.token = refreshes[callers[c].promise].token,
                     !.error = refreshes[callers[c].promise].error]]
    /\ UNCHANGED <<clock, tokenCaches, refreshes, nCalls>>
    /\ UNCHANGED <<storeVars, runVars, otherVars>>

TokenTick ==
    /\ clock < MaxTokenTicks * TokenTickMs
    /\ clock' = clock + TokenTickMs
    /\ UNCHANGED <<tokenCaches, refreshes, callers, nCalls>>
    /\ UNCHANGED <<storeVars, runVars, otherVars>>

NextToken ==
    \/ \E c \in Callers, cacheKey \in TokenKeys :
          GetAccessToken(c, cacheKey)
    \/ \E p \in 1..Len(refreshes) : \E answer \in GetTokenAnswers(p) :
          RefreshSettle(p, answer)
    \/ \E c \in Callers : CallerResume(c)
    \/ TokenTick

SpecToken == Init /\ [][NextToken]_vars

-----------------------------------------------------------------------------
(* Properties *)

PendingsOf(c) ==
    {k \in DOMAIN pendingInbounds : pendingInbounds[k].conversationKey = c}

RunsOf(c) == {i \in 1..Len(agentRuns) : agentRuns[i].conversationKey = c}

(* C1: every conversation has at most one active and at most one queued
   batch: its queue holds at most one batch key, and every pending batch of
   the conversation is either its active batch or the one queued batch. *)
C1_OneActiveOneQueued ==
    \A c \in ConversationKeys :
        IF Has(conversationState, c)
        THEN LET conv == conversationState[c] IN
             /\ Len(conv.queue) <= 1
             /\ Cardinality(PendingsOf(c)) <= 2
             /\ \A k \in PendingsOf(c) :
                   \/ k = conv.activeBatchKey
                   \/ (conv.queue # <<>> /\ k = Head(conv.queue))
             /\ conv.queue # <<>> => Head(conv.queue) # conv.activeBatchKey
        ELSE PendingsOf(c) = {}

C1_Witness ==
    \E c \in ConversationKeys :
        /\ Has(conversationState, c)
        /\ conversationState[c].queue # <<>>
        /\ Has(pendingInbounds, conversationState[c].activeBatchKey)
        /\ Has(pendingInbounds, Head(conversationState[c].queue))
        /\ Len(pendingInbounds[Head(conversationState[c].queue)].contents) >= 2

(* C2: within a conversation batches reach the flush handler in the order of
   their admission (stream ids are drawn in admission order), and when a
   batch is flushed the run of every batch flushed before it has already
   called onStreamFinished and returned: no two runs overlap. *)
C2_FlushOrder ==
    \A c \in ConversationKeys : \A i, j \in RunsOf(c) :
        i < j => /\ agentRuns[i].streamId < agentRuns[j].streamId
                 /\ agentRuns[i].streamId \notin running

C2_Witness ==
    \E c \in ConversationKeys : \E i, j \in RunsOf(c) :
        /\ i < j
        /\ agentRuns[j].batchKey # c
        /\ agentRuns[j].streamId \in running
        /\ conversationState[c].queue # <<>>

(* where msgid m sits in the batches handed to the agent: <<run, position>> *)
RunAdmissions(m) ==
    UNION {{<<i, n>> : n \in {x \in 1..Len(agentRuns[i].msgids) :
                                 agentRuns[i].msgids[x] = m}} :
           i \in 1..Len(agentRuns)}

(* where msgid m sits in the batches still pending: <<batch key, position>> *)
PendingAdmissions(m) ==
    UNION {{<<k, n>> : n \in {x \in 1..Len(pendingInbounds[k].msgids) :
                                 pendingInbounds[k].msgids[x] = m}} :
           k \in DOMAIN pendingInbounds}


(* C3 as stated: over every sequence of POSTs a msgid reaches the agent at
   most once. *)
C3_ProcessedAtMostOnce ==
    \A m \in MsgIds : Cardinality(RunAdmissions(m)) <= 1

(* C3, amended: as long as the pruner has not removed the mapping of a msgid,
   the msgid is admitted at most once (it sits in at most one place of the
   pending and flushed batches), and a POST whose msgid is mapped is answered
   with the mapped stream id as a duplicate and changes nothing in the store. *)
C3_AtMostOnceWhileMapped ==
    /\ [](\A m \in MsgIds \ evicted :
            Cardinality(RunAdmissions(m)) + Cardinality(PendingAdmissions(m)) <= 1)
    /\ [][(/\ nPosts' = nPosts + 1
           /\ lastReply'.kind = "message"
           /\ lastReply'.msgid # NoMsgId
           /\ msgidToStreamId[lastReply'.msgid] # NoStream)
          => (/\ lastReply'.status = "duplicate"
              /\ lastReply'.streamId = msgidToStreamId[lastReply'.msgid]
              /\ UNCHANGED <<streams, msgidToStreamId, pendingInbounds,
                             conversationState, streamIdToBatchKey,
                             batchStreamIdToAckStreamIds, nextStreamId,
                             running, agentRuns>>)]_vars

C3_Witness ==
    /\ lastReply.status = "duplicate"
    /\ lastReply.msgid \notin evicted
    /\ Cardinality(RunAdmissions(lastReply.msgid)) = 1
    /\ lastReply.streamId = agentRuns[Len(agentRuns)].streamId

(* the record of the agent run of stream s *)
RunOf(s) == agentRuns[CHOOSE i \in 1..Len(agentRuns) : agentRuns[i].streamId = s]

(* the run of stream s returns in this step (it has called onStreamFinished)
   and its batch is the active batch of its conversation *)
FinishesActive(s) ==
    /\ s \in running
    /\ s \notin running'
    /\ Has(conversationState, RunOf(s).conversationKey)
    /\ conversationState[RunOf(s).conversationKey].activeBatchKey = RunOf(s).batchKey

(* C4: when the run of a conversation's active batch calls onStreamFinished,
   then with nothing queued the conversation entry is removed; with a batch
   queued, that batch becomes the active one, is flushed in the same step if
   its debounce has already expired (readyToFlush), and otherwise keeps its
   debounce timer armed, whose firing flushes it. *)
C4_FinishAdvancesQueue ==
    [][\A s \in running : FinishesActive(s) =>
          LET c == RunOf(s).conversationKey
              conv == conversationState[c]
          IN IF conv.queue = <<>>
             THEN ~Has(conversationState', c)
             ELSE LET next == Head(conv.queue) IN
                  /\ Has(conversationState', c)
                  /\ conversationState'[c].activeBatchKey = next
                  /\ Has(pendingInbounds, next) =>
                        IF pendingInbounds[next].readyToFlush
                        THEN /\ ~Has(pendingInbounds', next)
                             /\ pendingInbounds[next].streamId \in running'
                             /\ agentRuns'[Len(agentRuns')].contents =
                                    pendingInbounds[next].contents
                        ELSE /\ Has(pendingInbounds', next)
                             /\ pendingInbounds'[next].timeout]_vars

(* a POST of a message is handled in this step and is not a duplicate *)
Admits ==
    /\ nPosts' = nPosts + 1
    /\ lastReply'.kind = "message"
    /\ lastReply'.status # "duplicate"

(* C5: a message admitted while the active batch of its conversation is the
   initial batch (batch key = conversation key) is not merged into it, be
   that batch pending, flushed or started: with nothing queued the message
   gets queued_new and a fresh stream id, otherwise it goes to the queued
   batch; and the initial batch holds, and is flushed with, one content. *)
C5_InitialBatchNeverMerges ==
    /\ [](/\ \A k \in DOMAIN pendingInbounds :
               k = pendingInbounds[k].conversationKey =>
                   Len(pendingInbounds[k].contents) = 1
          /\ \A i \in 1..Len(agentRuns) :
               agentRuns[i].batchKey = agentRuns[i].conversationKey =>
                   Len(agentRuns[i].contents) = 1)
    /\ [][LET c == lastReply'.conversationKey IN
          (/\ Admits
           /\ Has(conversationState, c)
           /\ conversationState[c].activeBatchKey = c)
          => /\ lastReply'.status \in {"queued_new", "queued_merged"}
             /\ ~Has(streamIdToBatchKey, lastReply'.batchStreamId)
                   \/ streamIdToBatchKey[lastReply'.batchStreamId] # c
             /\ conversationState[c].queue = <<>> =>
                   /\ lastReply'.status = "queued_new"
                   /\ lastReply'.streamId = nextStreamId
                   /\ ~Has(streams, lastReply'.streamId)
                   /\ ~Has(streamIdToBatchKey, lastReply'.streamId)
             /\ Has(pendingInbounds, c) =>
                   /\ Has(pendingInbounds', c)
                   /\ pendingInbounds'[c] = pendingInbounds[c]]_vars

C5_Witness ==
    \E c \in ConversationKeys :
        /\ Has(conversationState, c)
        /\ conversationState[c].activeBatchKey = c
        /\ lastReply.status = "queued_new"
        /\ agentRuns # <<>>
        /\ agentRuns[Len(agentRuns)].batchKey = c
        /\ agentRuns[Len(agentRuns)].streamId \in running
        /\ agentRuns[Len(agentRuns)].streamId < lastReply.streamId
        /\ Has(pendingInbounds, Head(conversationState[c].queue))
        /\ pendingInbounds[Head(conversationState[c].queue)].streamId = lastReply.streamId

(* the streams of the active batch of conversation c that have not started,
   when that batch is a promoted queued batch *)
UnstartedPromotedActive(c) ==
    IF Has(conversationState, c) /\ conversationState[c].activeBatchKey # c
    THEN {s \in DOMAIN streams :
            /\ streams[s].conversationKey = c
            /\ streams[s].batchKey = conversationState[c].activeBatchKey
            /\ ~streams[s].started}
    ELSE {}

(* C6: when the active batch of the conversation is a promoted queued batch
   whose stream has not started, an admitted message is merged into it:
   status active_merged for the active batch's stream, the content appended
   to the batch and its timer re-armed. A batch is flushed at most once, and
   the flush hands the agent the contents of the batch, which are in the
   order in which the messages arrived. A pending active batch always has
   its debounce timer armed, and the firing of that timer flushes it. *)
C6_MergeIntoPromotedActive ==
    /\ [][LET c == lastReply'.conversationKey IN
          \A s \in UnstartedPromotedActive(c) : Admits =>
             LET active == conversationState[c].activeBatchKey IN
             /\ lastReply'.status = "active_merged"
             /\ lastReply'.batchStreamId = s
             /\ Has(pendingInbounds, active) /\ Has(pendingInbounds', active)
             /\ pendingInbounds[active].streamId = s
             /\ pendingInbounds'[active] =
                   [pendingInbounds[active] EXCEPT
                       !.contents = Append(@, nPosts'),
                       !.msgids = IF lastReply'.msgid # NoMsgId
                                  THEN Append(@, lastReply'.msgid) ELSE @,
                       !.timeout = TRUE]
             /\ agentRuns' = agentRuns]_vars
    /\ [][\A k \in DOMAIN pendingInbounds :
            (/\ Len(agentRuns') = Len(agentRuns) + 1
             /\ agentRuns'[Len(agentRuns')].streamId = pendingInbounds[k].streamId)
            => /\ agentRuns'[Len(agentRuns')].contents = pendingInbounds[k].contents
               /\ agentRuns'[Len(agentRuns')].msgids = pendingInbounds[k].msgids
               /\ ~Has(pendingInbounds', k)]_vars
    /\ [](\A i, j \in 1..Len(agentRuns) :
            /\ i # j => agentRuns[i].streamId # agentRuns[j].streamId
            /\ \A x, y \in 1..Len(agentRuns[i].contents) :
                  x < y => agentRuns[i].contents[x] < agentRuns[i].contents[y])
    /\ [](\A k \in DOMAIN pendingInbounds :
            IsActiveBatch(St, pendingInbounds[k].conversationKey, k) =>
                /\ pendingInbounds[k].timeout
                /\ LET fired == requestFlush(St, k) IN
                   /\ ~Has(fired.pendingInbounds, k)
                   /\ pendingInbounds[k].streamId \in fired.running
                   /\ fired.agentRuns[Len(fired.agentRuns)].contents =
                          pendingInbounds[k].contents)

C6_Witness ==
    /\ lastReply.status = "active_merged"
    /\ agentRuns # <<>>
    /\ agentRuns[Len(agentRuns)].streamId = lastReply.batchStreamId
    /\ agentRuns[Len(agentRuns)].batchKey # agentRuns[Len(agentRuns)].conversationKey
    /\ Len(agentRuns[Len(agentRuns)].contents) >= 2
    /\ agentRuns[Len(agentRuns)].contents[Len(agentRuns[Len(agentRuns)].contents)] = nPosts

(* conversation c has a queued batch: its queue names a pending batch *)
HasQueuedBatch(c) ==
    /\ Has(conversationState, c)
    /\ conversationState[c].queue # <<>>
    /\ Has(pendingInbounds, Head(conversationState[c].queue))

(* C7: while the conversation has a queued batch, an admitted message is
   merged into it (queued_merged for the queued batch's stream; content
   appended) and no batch, batch key or batch stream is added; queued_new is
   returned only when the conversation has no queued batch, and then creates
   the batch <conversationKey>#q<nextSeq> with a fresh stream as the one
   queued batch. *)
C7_QueuedMergeOrNew ==
    [][LET c == lastReply'.conversationKey IN
       (Admits /\ Has(conversationState, c)) =>
          LET conv == conversationState[c] IN
          /\ HasQueuedBatch(c) =>
                LET queued == Head(conv.queue) IN
                /\ lastReply'.status = "queued_merged"
                /\ lastReply'.batchStreamId = pendingInbounds[queued].streamId
                /\ DOMAIN pendingInbounds' = DOMAIN pendingInbounds
                /\ pendingInbounds'[queued].contents =
                       Append(pendingInbounds[queued].contents, nPosts')
                /\ \A k \in DOMAIN pendingInbounds \ {queued} :
                       pendingInbounds'[k] = pendingInbounds[k]
                /\ UNCHANGED <<conversationState, streamIdToBatchKey>>
          /\ lastReply'.status = "queued_new" =>
                LET key == Append(c, conv.nextSeq) IN
                /\ ~HasQueuedBatch(c)
                /\ ~Has(pendingInbounds, key)
                /\ Has(pendingInbounds', key)
                /\ pendingInbounds'[key].streamId = nextStreamId
                /\ pendingInbounds'[key].contents = <<nPosts'>>
                /\ lastReply'.streamId = nextStreamId
                /\ ~Has(streams, nextStreamId)
                /\ streamIdToBatchKey' = Put(streamIdToBatchKey, nextStreamId, key)
                /\ conversationState'[c] =
                       [conv EXCEPT !.queue = <<key>>, !.nextSeq = conv.nextSeq + 1]]_vars

C7_Witness ==
    \E c \in ConversationKeys :
        /\ HasQueuedBatch(c)
        /\ lastReply.status = "queued_merged"
        /\ lastReply.batchStreamId =
               pendingInbounds[Head(conversationState[c].queue)].streamId
        /\ Len(pendingInbounds[Head(conversationState[c].queue)].contents) >= 3

(* C8: when the run of the active batch calls onStreamFinished with nothing
   queued, the conversation entry is deleted; and a message admitted for a
   conversation without an entry gets active_new with a fresh stream id and
   becomes the active batch with its own debounce timer armed, whose firing
   flushes it. *)
C8_IdleConversationResets ==
    /\ [][\A s \in running :
            (/\ FinishesActive(s)
             /\ conversationState[RunOf(s).conversationKey].queue = <<>>)
            => ~Has(conversationState', RunOf(s).conversationKey)]_vars
    /\ [][LET c == lastReply'.conversationKey IN
          (Admits /\ ~Has(conversationState, c)) =>
             /\ lastReply'.status = "active_new"
             /\ lastReply'.streamId = nextStreamId
             /\ ~Has(streams, nextStreamId)
             /\ ~Has(streamIdToBatchKey, nextStreamId)
             /\ Has(pendingInbounds', c)
             /\ pendingInbounds'[c].streamId = nextStreamId
             /\ pendingInbounds'[c].timeout
             /\ IsActiveBatch(St', c, c)
             /\ LET fired == requestFlush(St', c) IN
                /\ nextStreamId \in fired.running
                /\ fired.agentRuns[Len(fired.agentRuns)].contents = <<nPosts'>>]_vars

(* the ack streams registered for batch stream b *)
AckStreamsFor(b) ==
    IF Has(batchStreamIdToAckStreamIds, b)
    THEN {batchStreamIdToAckStreamIds[b][n] :
             n \in 1..Len(batchStreamIdToAckStreamIds[b])}
    ELSE {}

(* C9: a msgid that maps to a batch stream is the msgid that stream was
   created with (the first message of the batch), so at most one msgid maps
   to a batch stream; a merged message (active_merged, queued_merged) is
   answered with its own ack stream, which is no batch stream, differs from
   the batch's stream, is registered as an ack stream of the batch and is
   what the msgid maps to; a retry of that msgid is answered as a duplicate
   with the ack stream's id. *)
C9_MergedMapsToAckStream ==
    /\ [](\A m \in MsgIds :
            LET s == msgidToStreamId[m] IN
            (s # NoStream /\ Has(streamIdToBatchKey, s)) =>
                /\ Has(streams, s)
                /\ streams[s].msgid = m
                /\ \A k \in DOMAIN pendingInbounds :
                      pendingInbounds[k].streamId = s =>
                          pendingInbounds[k].msgids[1] = m)
    /\ [](\A s \in DOMAIN streamIdToBatchKey :
            Cardinality({m \in MsgIds : msgidToStreamId[m] = s}) <= 1)
    /\ [][(Admits /\ lastReply'.status \in {"active_merged", "queued_merged"}) =>
            /\ lastReply'.streamId # lastReply'.batchStreamId
            /\ Has(streamIdToBatchKey', lastReply'.batchStreamId)
            /\ ~Has(streamIdToBatchKey', lastReply'.streamId)
            /\ Has(batchStreamIdToAckStreamIds', lastReply'.batchStreamId)
            /\ \E n \in 1..Len(batchStreamIdToAckStreamIds'[lastReply'.batchStreamId]) :
                  batchStreamIdToAckStreamIds'[lastReply'.batchStreamId][n] =
                      lastReply'.streamId
            /\ lastReply'.msgid # NoMsgId =>
                  msgidToStreamId'[lastReply'.msgid] = lastReply'.streamId]_vars
    /\ [][(/\ nPosts' = nPosts + 1
           /\ lastReply'.msgid # NoMsgId
           /\ \E b \in DOMAIN batchStreamIdToAckStreamIds :
                 msgidToStreamId[lastReply'.msgid] \in AckStreamsFor(b))
          => /\ lastReply'.status = "duplicate"
             /\ lastReply'.streamId = msgidToStreamId[lastReply'.msgid]
             /\ ~Has(streamIdToBatchKey, lastReply'.streamId)]_vars

C9_Witness ==
    /\ lastReply.status = "duplicate"
    /\ msgidToStreamId[lastReply.msgid] = lastReply.streamId
    /\ \E k \in DOMAIN pendingInbounds :
          /\ lastReply.streamId \in AckStreamsFor(pendingInbounds[k].streamId)
          /\ \E n \in 2..Len(pendingInbounds[k].contents) :
                \E x \in 1..Len(pendingInbounds[k].msgids) :
                    pendingInbounds[k].msgids[x] = lastReply.msgid

(* C10: with requests handled concurrently, a message POST that is admitted
   has its msgid mapped to the stream id of its placeholder reply when that
   reply is written; the dedupe lookup and the write of the mapping happen
   in one step of the handler, so a handler that finds the msgid unmapped
   admits it and leaves it mapped, and one that finds it mapped answers as a
   duplicate with the mapped stream and writes nothing; and a POST that was
   in flight while another POST with the same msgid was admitted observes
   that mapping and is answered as a duplicate. *)
C10_MappingBeforeReply ==
    /\ []((/\ lastReply.kind = "message"
           /\ lastReply.msgid # NoMsgId
           /\ Admitting(lastReply.status))
          => lastReply.mappedAtSend = lastReply.streamId)
    /\ [](lastReply.peerStream # NoStream =>
            /\ lastReply.status \in {"duplicate", "card_duplicate"}
            /\ lastReply.observed = lastReply.peerStream)
    /\ [][\A h \in Handlers :
            (reqs[h].pc = "body" /\ reqs'[h].pc = "idle" /\ reqs[h].msgid # NoMsgId) =>
               LET m == reqs[h].msgid IN
               IF msgidToStreamId[m] # NoStream
               THEN /\ lastReply'.status \in {"duplicate", "card_duplicate"}
                    /\ lastReply'.observed = msgidToStreamId[m]
                    /\ UNCHANGED <<msgidToStreamId, pendingInbounds, agentRuns, streams>>
               ELSE /\ Admitting(lastReply'.status)
                    /\ msgidToStreamId'[m] # NoStream
                    /\ msgidToStreamId'[m] = IF lastReply'.kind = "message"
                                             THEN lastReply'.streamId
                                             ELSE lastReply'.batchStreamId
                    /\ \A g \in Handlers \ {h} :
                          (reqs[g].pc = "body" /\ reqs[g].msgid = m) =>
                              reqs'[g].peerStream = msgidToStreamId'[m]]_vars

C10_Witness ==
    /\ lastReply.kind = "message"
    /\ lastReply.status = "duplicate"
    /\ lastReply.peerStream # NoStream
    /\ lastReply.observed = lastReply.peerStream
    /\ msgidToStreamId[lastReply.msgid] = lastReply.peerStream
    /\ Cardinality(RunAdmissions(lastReply.msgid))
          + Cardinality(PendingAdmissions(lastReply.msgid)) = 1

-----------------------------------------------------------------------------
(* One agent run in detail: startAgentForStream with its deliver callback *)

MaxBlocks == 2
MaxRunPosts == 1

(* the time between two observations of the clock by a run: 5 min 30 s *)
RunTickMs == BOT_WINDOW_MS - BOT_SWITCH_MARGIN_MS

(* The blocks the agent can deliver as its n-th block: a short text, a long  *)
(* one, white space, a template card as JSON, a text with a non-image file,  *)
(* a text with an image; the texts differ in length.                         *)
Payloads(n) ==
    {[text |-> Piece("block", n, 5), card |-> FALSE, mediaUrls |-> <<>>],
     [text |-> Piece("block", n, 120000), card |-> FALSE, mediaUrls |-> <<>>],
     [text |-> Piece("space", 0, 1), card |-> FALSE, mediaUrls |-> <<>>],
     [text |-> Piece("block", n, 300), card |-> TRUE, mediaUrls |-> <<>>],
     [text |-> Piece("block", n, 6), card |-> FALSE,
      mediaUrls |-> <<[path |-> "/tmp/report.pdf", image |-> FALSE]>>],
     [text |-> Piece("block", n, 7), card |-> FALSE,
      mediaUrls |-> <<[path |-> "/tmp/chart.png", image |-> TRUE]>>]}

(* The run that is followed in detail: its stream, and the configurations *)
(* of the account and of the message that starts it.                      *)
Configs(streamId) ==
    [streamId : {streamId},
     agentConfigured : BOOLEAN, userId : {"alice", "unknown"},
     chatType : {"group", "direct"}, responseUrl : BOOLEAN]

(* the store when nothing has happened *)
NewStore ==
    [streams |-> EmptyMap,
     msgidToStreamId |-> [m \in MsgIds |-> NoStream],
     pendingInbounds |-> EmptyMap,
     conversationState |-> EmptyMap,
     streamIdToBatchKey |-> EmptyMap,
     batchStreamIdToAckStreamIds |-> EmptyMap,
     nextStreamId |-> 1,
     running |-> {},
     agentRuns |-> <<>>]

(* A conversation in which a batch of two merged messages is being run:      *)
(* message 1 is flushed (stream 1), message 2 is queued (stream 2), message  *)
(* 3 is merged into the queued batch (ack stream 3), run 1 returns, the      *)
(* timer of the promoted batch fires and run 2 starts; then, when a queued   *)
(* batch is asked for, message 4 is queued behind it (stream 4).             *)
RunningBatch(c, withQueued) ==
    LET r1 == HandleMessage(NewStore, c, "m1", 1)
        S1 == requestFlush(r1.store, c)
        r2 == HandleMessage(S1, c, "m2", 2)
        r3 == HandleMessage(r2.store, c, NoMsgId, 3)
        S4 == EndRun(Finalize(r3.store, 1), 1)
        S5 == requestFlush(S4, QueuedBatchKey(c, 1))
    IN IF withQueued THEN HandleMessage(S5, c, NoMsgId, 4).store ELSE S5

(* the ack streams registered for some batch *)
AckStreamIds(S) ==
    UNION {{S.batchStreamIdToAckStreamIds[b][i] :
                i \in 1..Len(S.batchStreamIdToAckStreamIds[b])} :
           b \in DOMAIN S.batchStreamIdToAckStreamIds}

(* The state in which the run of the merged batch has just started, for *)
(* one of the given configurations.                                      *)
RunStarts(withQueued, userIds) ==
    /\ \E c \in ConversationKeys :
          LET S == RunningBatch(c, withQueued) IN
          /\ streams = S.streams
          /\ msgidToStreamId = S.msgidToStreamId
          /\ pendingInbounds = S.pendingInbounds
          /\ conversationState = S.conversationState
          /\ streamIdToBatchKey = S.streamIdToBatchKey
          /\ batchStreamIdToAckStreamIds = S.batchStreamIdToAckStreamIds
          /\ nextStreamId = S.nextStreamId
          /\ running = S.running
          /\ agentRuns = S.agentRuns
          /\ details = [s \in DOMAIN S.streams |->
                          IF s \in AckStreamIds(S) THEN AckDetails ELSE NewDetails]
    /\ reqs = [h \in Handlers |-> IdleReq]
    /\ nPosts = 0
    /\ lastReply = NoReply
    /\ evicted = {}
    /\ dispatching = {}
    /\ outbox = <<>>
    /\ nBlocks = 0
    /\ cfg \in {c \in Configs(CHOOSE s \in running : TRUE) : c.userId \in userIds}
    /\ TokenInit
    /\ OtherInit

(* the run of the merged batch with nothing queued behind it, the sender known *)
RunInit == RunStarts(FALSE, {"alice"})

(* the run with a batch queued behind it, the sender known or not *)
BatchEndInit == RunStarts(TRUE, {"alice", "unknown"})

(* the mutators of the ack streams at the end of the batch *)
SetMergedDone == [content |-> FixedText("mergedDoneHint"), finished |-> TRUE]

RECURSIVE UpdateAckStreamsRich(_, _)
UpdateAckStreamsRich(R, ackStreamIds) ==
    IF ackStreamIds = <<>> THEN R
    ELSE UpdateAckStreamsRich(UpdateRich(R, Head(ackStreamIds), SetMergedDone),
                              Tail(ackStreamIds))

(* startAgentForStream after the dispatch: the ack of /new and /reset *)
ResetAck(R, streamId, isResetCommand) ==
    IF /\ isResetCommand
       /\ HasStream(R, streamId)
       /\ Trim(R.details[streamId].content) = EmptyText
    THEN UpdateRich(R, streamId,
                    [content |-> FixedText("reset-ack"), finished |-> TRUE])
    ELSE R

(* finishedState?.fallbackMode === "timeout" && !finishedState.finalDeliveredAt *)
NeedsFinalDelivery(R, streamId) ==
    /\ HasStream(R, streamId)
    /\ R.details[streamId].fallbackMode = "timeout"
    /\ ~R.details[streamId].finalDeliveredAt

(* the final delivery that sends the visible content of the stream *)
TimeoutFinalDelivery_SendsContent(R, streamId, dmOk) ==
    IF ~NeedsFinalDelivery(R, streamId) THEN R
    ELSE IF ~cfg.agentConfigured
    THEN UpdateRich(R, streamId, [finalDeliveredAt |-> TRUE])
    ELSE IF cfg.userId # ""
    THEN LET dmText == Trim(R.details[streamId].content)
             R1 == IF dmText # EmptyText
                   THEN SendAgentDm(R, "dm_text", dmText, dmOk) ELSE R
         IN UpdateRich(R1, streamId, [finalDeliveredAt |-> TRUE])
    ELSE R

(* startAgentForStream: the final delivery of a timeout fallback by Agent DM *)
TimeoutFinalDelivery(R, streamId, dmOk) ==
    IF ~NeedsFinalDelivery(R, streamId) THEN R
    ELSE IF ~cfg.agentConfigured
    THEN UpdateRich(R, streamId, [finalDeliveredAt |-> TRUE])
    ELSE IF cfg.userId # ""
    THEN LET dmText == Trim(R.details[streamId].dmContent)
             R1 == IF dmText # EmptyText
                   THEN SendAgentDm(R, "dm_text", dmText, dmOk) ELSE R
         IN UpdateRich(R1, streamId, [finalDeliveredAt |-> TRUE])
    ELSE R

(* startAgentForStream: the final push of the images of a group chat *)
GroupImagePush(R, streamId, pushOk) ==
    IF /\ cfg.chatType = "group"
       /\ HasStream(R, streamId)
       /\ R.details[streamId].images # {}
       /\ cfg.responseUrl
    THEN UseActiveReply(R, streamId,
            truncateUtf8Bytes(R.details[streamId].content, STREAM_MAX_BYTES), pushOk)
    ELSE R

(* startAgentForStream from the return of the dispatcher to its own return *)
FinalizeRich(R, streamId, isResetCommand, pushOk, dmOk) ==
    LET R1 == ResetAck(R, streamId, isResetCommand)
        R2 == UpdateRich(R1, streamId, SetFinished)
        R3 == TimeoutFinalDelivery(R2, streamId, dmOk)
        R4 == GroupImagePush(R3, streamId, pushOk)
        ackStreamIds == AckStreamsOf(R4.store, streamId)
        R5 == UpdateAckStreamsRich(
                 [R4 EXCEPT !.store = drainAckStreamsForBatch(@, streamId)],
                 ackStreamIds)
    IN [R5 EXCEPT !.store = EndRun(onStreamFinished(@, streamId), streamId)]

(* the mutator of the catch of flushPending: state.content || `Error: ...` *)
SetError(state) ==
    [error |-> "agent failed",
     content |-> IF state.content # EmptyText THEN state.content
                 ELSE FixedText("Error: agent failed"),
     finished |-> TRUE]

(* flushPending, the catch of startAgentForStream *)
CatchRich(R, streamId) ==
    LET R1 == IF HasStream(R, streamId)
              THEN UpdateRich(R, streamId, SetError(R.details[streamId])) ELSE R
    IN [R1 EXCEPT !.store = EndRun(onStreamFinished(@, streamId), streamId)]

(* startAgentForStream, the command gate: an unauthorized command *)
UnauthorizedRich(R, streamId, pushOk) ==
    LET prompt == FixedText("prompt:unauthorized")
        R1 == UpdateRich(R, streamId, [finished |-> TRUE, content |-> prompt])
        R2 == sendBotFallbackPromptNow(R1, streamId, prompt, pushOk)
    IN [R2 EXCEPT !.store = EndRun(onStreamFinished(@, streamId), streamId)]

(* startAgentForStream, the local image paths of the user's message *)
LocalImagesRich(R, streamId, pushOk) ==
    LET R1 == UpdateRich(R, streamId,
                 [images |-> {"/tmp/photo.png"},
                  content |-> FixedText("image-sent"), finished |-> TRUE])
        R2 == IF cfg.responseUrl /\ HasStream(R1, streamId)
              THEN UseActiveReply(R1, streamId,
                      truncateUtf8Bytes(R1.details[streamId].content, STREAM_MAX_BYTES),
                      pushOk)
              ELSE R1
    IN [R2 EXCEPT !.store = EndRun(onStreamFinished(@, streamId), streamId)]

(* startAgentForStream, the local non-image paths of the user's message *)
LocalFilesRich(R, streamId, mediaPath, pushOk, dmOk) ==
    LET prompt == buildFallbackPrompt("media", cfg.agentConfigured, cfg.userId)
        R1 == UpdateRich(R, streamId, SetFallback("media", prompt))
        R2 == sendBotFallbackPromptNow(R1, streamId, prompt, pushOk)
        send == /\ cfg.agentConfigured
                /\ cfg.userId # "unknown"
                /\ ~(HasStream(R2, streamId)
                     /\ AlreadySent(R2.details[streamId], mediaPath))
        R3 == IF send THEN SendAgentDm(R2, "dm_media", Piece(mediaPath, 0, 1), dmOk)
              ELSE R2
        R4 == IF send /\ dmOk /\ HasStream(R3, streamId)
              THEN UpdateRich(R3, streamId,
                     [agentMediaKeys |-> R3.details[streamId].agentMediaKeys
                                         \cup {mediaPath}])
              ELSE R3
    IN [R4 EXCEPT !.store = EndRun(onStreamFinished(@, streamId), streamId)]

(* The run reaches the dispatch of the agent. *)
StartDispatch(streamId) ==
    /\ streamId = cfg.streamId
    /\ streamId \in running \ dispatching
    /\ dispatching' = dispatching \cup {streamId}
    /\ UNCHANGED <<storeVars, tokenVars, otherVars, details, outbox, nBlocks, cfg>>

(* The run ends before the dispatch: an unauthorized command. *)
StartUnauthorized(streamId, pushOk) ==
    /\ streamId = cfg.streamId
    /\ streamId \in running \ dispatching
    /\ SetRStore(UnauthorizedRich(RSt, streamId, pushOk))
    /\ UNCHANGED <<reqs, nPosts, lastReply, evicted, tokenVars, otherVars,
                   dispatching, nBlocks, cfg>>

(* The run ends before the dispatch: the message names local images. *)
StartLocalImages(streamId, pushOk) ==
    /\ streamId = cfg.streamId
    /\ streamId \in running \ dispatching
    /\ SetRStore(LocalImagesRich(RSt, streamId, pushOk))
    /\ UNCHANGED <<reqs, nPosts, lastReply, evicted, tokenVars, otherVars,
                   dispatching, nBlocks, cfg>>

(* The run ends before the dispatch: the message names a local file. *)
StartLocalFiles(streamId, pushOk, dmOk) ==
    /\ streamId = cfg.streamId
    /\ streamId \in running \ dispatching
    /\ SetRStore(LocalFilesRich(RSt, streamId, "/tmp/report.pdf", pushOk, dmOk))
    /\ UNCHANGED <<reqs, nPosts, lastReply, evicted, tokenVars, otherVars,
                   dispatching, nBlocks, cfg>>

(* The dispatcher calls deliver with the next block. *)
Deliver(streamId, payload, pushOk, dmOk) ==
    /\ streamId \in dispatching
    /\ nBlocks < MaxBlocks
    /\ nBlocks' = nBlocks + 1
    /\ SetRStore(deliver(RSt, streamId, payload, pushOk, dmOk))
    /\ UNCHANGED <<reqs, nPosts, lastReply, evicted, tokenVars, otherVars, dispatching, cfg>>

(* The dispatcher returns: the run finalizes and returns. *)
Complete(streamId, isResetCommand, pushOk, dmOk) ==
    /\ streamId \in dispatching
    /\ dispatching' = dispatching \ {streamId}
    /\ SetRStore(FinalizeRich(RSt, streamId, isResetCommand, pushOk, dmOk))
    /\ UNCHANGED <<reqs, nPosts, lastReply, evicted, tokenVars, otherVars, nBlocks, cfg>>

(* The run throws: the catch of flushPending. *)
Fail(streamId) ==
    /\ streamId = cfg.streamId
    /\ streamId \in running
    /\ dispatching' = dispatching \ {streamId}
    /\ SetRStore(CatchRich(RSt, streamId))
    /\ UNCHANGED <<reqs, nPosts, lastReply, evicted, tokenVars, otherVars, nBlocks, cfg>>

(* A message arrives during the run: the webhook handler admits it and the *)
(* streams it creates get their state.                                      *)
RunPost(conversationKey) ==
    /\ nPosts < MaxRunPosts
    /\ nPosts' = nPosts + 1
    /\ LET req == [pc |-> "body", kind |-> "message", msgid |-> NoMsgId,
                   conversationKey |-> conversationKey,
                   msgContent |-> Len(agentRuns) + Cardinality(DOMAIN streams) + 1,
                   peerStream |-> NoStream]
           r == Handle(St, req)
       IN /\ SetStore(r.store)
          /\ lastReply' = ReplyOf(req, r)
          /\ details' = [s \in DOMAIN r.store.streams |->
                           IF s \in DOMAIN details THEN details[s]
                           ELSE IF s \in AckStreamIds(r.store) THEN AckDetails
                           ELSE NewDetails]
    /\ UNCHANGED <<reqs, evicted, tokenVars, otherVars, dispatching, outbox, nBlocks, cfg>>

(* A debounce timer fires during the run. *)
RunTimerFire(batchKey) ==
    /\ Has(pendingInbounds, batchKey)
    /\ pendingInbounds[batchKey].timeout
    /\ SetStore(requestFlush(St, batchKey))
    /\ UNCHANGED <<reqs, nPosts, lastReply, evicted, tokenVars, otherVars, runVars>>

AgedBy(t, d, floor) == IF t - d < floor THEN floor ELSE t - d

(* Time passes by one step of the run's clock. *)
RunTick ==
    /\ streams' = [id \in DOMAIN streams |->
                     [streams[id] EXCEPT !.updatedAt = AgedBy(@, RunTickMs, Expired)]]
    /\ pendingInbounds' = [key \in DOMAIN pendingInbounds |->
                     [pendingInbounds[key] EXCEPT
                         !.createdAt = AgedBy(@, RunTickMs, Expired)]]
    /\ details' = [id \in DOMAIN details |->
                     [details[id] EXCEPT
                         !.createdAt = AgedBy(@, RunTickMs, 0 - RunTickMs)]]
    /\ \/ streams' # streams
       \/ pendingInbounds' # pendingInbounds
       \/ details' # details
    /\ UNCHANGED <<msgidToStreamId, conversationState, streamIdToBatchKey,
                   batchStreamIdToAckStreamIds, nextStreamId,
                   reqs, nPosts, running, agentRuns, lastReply, evicted,
                   tokenVars, otherVars, dispatching, outbox, nBlocks, cfg>>

(* The prune interval fires during the run. *)
RunPrune ==
    LET S1 == prune(St) IN
    /\ S1 # St
    /\ SetStore(S1)
    /\ details' = [id \in DOMAIN S1.streams |-> details[id]]
    /\ evicted' = evicted \cup {m \in MsgIds : msgidToStreamId[m] # NoStream
                                             /\ S1.msgidToStreamId[m] = NoStream}
    /\ UNCHANGED <<reqs, nPosts, lastReply, tokenVars, otherVars,
                   dispatching, outbox, nBlocks, cfg>>

NextRun ==
    \/ \E streamId \in running : StartDispatch(streamId)
    \/ \E streamId \in running, pushOk \in BOOLEAN : StartUnauthorized(streamId, pushOk)
    \/ \E streamId \in running, pushOk \in BOOLEAN : StartLocalImages(streamId, pushOk)
    \/ \E streamId \in running, pushOk \in BOOLEAN, dmOk \in BOOLEAN :
          StartLocalFiles(streamId, pushOk, dmOk)
    \/ \E streamId \in running, payload \in Payloads(nBlocks + 1),
          pushOk \in BOOLEAN, dmOk \in BOOLEAN :
          Deliver(streamId, payload, pushOk, dmOk)
    \/ \E streamId \in running, isResetCommand \in BOOLEAN,
          pushOk \in BOOLEAN, dmOk \in BOOLEAN :
          Complete(streamId, isResetCommand, pushOk, dmOk)
    \/ \E streamId \in running : Fail(streamId)
    \/ RunTick
    \/ RunPrune

SpecRun == RunInit /\ [][NextRun]_vars

(* The ways a batch ends, with a batch queued behind it: the run returns *)
(* before the dispatch, after it, or throws.                             *)
NextBatchEnd ==
    \/ \E streamId \in running : StartDispatch(streamId)
    \/ \E streamId \in running, pushOk \in BOOLEAN : StartUnauthorized(streamId, pushOk)
    \/ \E streamId \in running, pushOk \in BOOLEAN : StartLocalImages(streamId, pushOk)
    \/ \E streamId \in running, pushOk \in BOOLEAN, dmOk \in BOOLEAN :
          StartLocalFiles(streamId, pushOk, dmOk)
    \/ \E streamId \in running, isResetCommand \in BOOLEAN,
          pushOk \in BOOLEAN, dmOk \in BOOLEAN :
          Complete(streamId, isResetCommand, pushOk, dmOk)
    \/ \E streamId \in running : Fail(streamId)
    \/ \E c \in ConversationKeys : RunPost(c)
    \/ \E batchKey \in BatchKeys : RunTimerFire(batchKey)
    \/ RunTick
    \/ RunPrune

SpecBatchEnd == BatchEndInit /\ [][NextBatchEnd]_vars

-----------------------------------------------------------------------------
(* Blocks that carry several media items *)

MaxMediaUrls == 2

MediaItems ==
    {[path |-> "/tmp/report.pdf", image |-> FALSE],
     [path |-> "/tmp/notes.txt", image |-> FALSE],
     [path |-> "/tmp/chart.png", image |-> TRUE]}

(* the lists of one to MaxMediaUrls media items *)
MediaLists ==
    UNION {[1..len -> MediaItems] : len \in 1..MaxMediaUrls}

(* the blocks the agent can deliver as its n-th block: a text with media *)
FilePayloads(n) ==
    {[text |-> Piece("block", n, 6), card |-> FALSE, mediaUrls |-> list] :
        list \in MediaLists}

(* The run of one batch whose blocks carry media, on a clock that advances. *)
NextFiles ==
    \/ \E streamId \in running : StartDispatch(streamId)
    \/ \E streamId \in running, payload \in FilePayloads(nBlocks + 1),
          pushOk \in BOOLEAN, dmOk \in BOOLEAN :
          Deliver(streamId, payload, pushOk, dmOk)
    \/ RunTick

SpecFiles == RunInit /\ [][NextFiles]_vars

-----------------------------------------------------------------------------
(* One HTTP request through handleWecomWebhookRequest (monitor.ts 1504-1786) *)

\* What a finished call has to say: the promise's result and the response.
Outcome(result, status) ==
    [done |-> TRUE, result |-> result, status |-> status]

\* handleAgentWebhook (api-client.ts 891-903): GET is the URL verification,
\* POST the message callback, whose body is one try/catch; other methods are
\* declined.
handleAgentWebhook(req) ==
    IF req.method = "GET"
    THEN IF ~req.signatureOk THEN Outcome("handled", 401)
         ELSE IF req.decryptOk THEN Outcome("handled", 200)
         ELSE Outcome("handled", 400)
    ELSE IF req.method = "POST"
    THEN IF ~req.bodyOk THEN Outcome("handled", 400)
         ELSE IF ~req.signatureOk THEN Outcome("handled", 401)
         ELSE IF ~req.decryptOk \/ req.crashes THEN Outcome("handled", 400)
         ELSE Outcome("handled", 200)
    ELSE Outcome("not_handled", 0)

\* The event branch (monitor.ts 1625-1664).  The template-card branch maps
\* over selected_item before replying and asks for the runtime after it.
handleEvent(req) ==
    IF req.eventtype = "template_card_event"
    THEN IF req.duplicate THEN Outcome("handled", 200)
         ELSE IF ~req.selectedItemsOk THEN Outcome("threw", 0)
         ELSE IF ~req.runtimeReady THEN Outcome("threw", 200)
         ELSE Outcome("handled", 200)
    ELSE Outcome("handled", 200)

\* The Bot POST path (monitor.ts 1583-1786).
handleBotPost(req) ==
    IF ~req.bodyOk THEN Outcome("handled", 400)
    ELSE IF ~req.signatureOk THEN Outcome("handled", 401)
    ELSE IF ~req.decryptOk THEN Outcome("handled", 400)
    ELSE IF ~req.plainIsJson THEN Outcome("threw", 0)
    ELSE IF req.msgtype = "event" THEN handleEvent(req)
    ELSE Outcome("handled", 200)

\* The Bot GET path (monitor.ts 1560-1581): the echo is decrypted in a try.
handleBotGet(req) ==
    IF ~req.signatureOk THEN Outcome("handled", 401)
    ELSE IF req.decryptOk THEN Outcome("handled", 200)
    ELSE Outcome("handled", 400)

\* getWecomRuntime (runtime.ts) throws while no runtime has been set; the
\* agent route calls it before anything is answered.
handleWecomWebhookRequest(req) ==
    IF req.path = "/wecom/agent"
    THEN IF req.registered
         THEN IF ~req.runtimeReady THEN Outcome("threw", 0)
              ELSE handleAgentWebhook(req)
         ELSE Outcome("handled", 404)
    ELSE IF ~req.registered \/ req.path = "/other" THEN Outcome("not_handled", 0)
    ELSE IF req.method = "GET" THEN handleBotGet(req)
    ELSE IF req.method # "POST" THEN Outcome("not_handled", 0)
    ELSE handleBotPost(req)

\* The requests: every flag is something the sender or the time of arrival
\* decides.  `crashes` says that something inside the guarded part throws.
Requests ==
    [fn : {"handleWecomWebhookRequest"},
     path : {"/wecom/agent", "/wecom", "/other"},
     method : {"GET", "POST", "PUT"},
     registered : BOOLEAN, runtimeReady : BOOLEAN,
     bodyOk : BOOLEAN, signatureOk : BOOLEAN, decryptOk : BOOLEAN,
     plainIsJson : BOOLEAN,
     msgtype : {"event", "stream", "text"},
     eventtype : {"template_card_event", "enter_chat"},
     duplicate : BOOLEAN, selectedItemsOk : BOOLEAN, crashes : BOOLEAN]

WebhookInit ==
    /\ StoreInit /\ TokenInit /\ RunIdle /\ TargetsInit /\ AgentInit /\ TimersInit /\ ReplyInit
    /\ call \in Requests
    /\ returned = NotReturned

HandleRequest ==
    /\ call.fn = "handleWecomWebhookRequest"
    /\ ~returned.done
    /\ returned' = handleWecomWebhookRequest(call)
    /\ UNCHANGED <<storeVars, tokenVars, runVars, targetVars, agentVars, timerVars, replyVars, call>>

NextWebhook == HandleRequest

SpecWebhook == WebhookInit /\ [][NextWebhook]_vars

-----------------------------------------------------------------------------
(* Registration of webhook targets and the prune timer (monitor.ts 85-100,   *)
(* 1465-1490; MonitorState.startPruning / stopPruning)                        *)

MaxRegistrations == 4

BotPaths == {"/wecom", "/wecom/bot"}
AgentPath == "/wecom/agent"

\* MonitorState.startPruning: sets the interval unless one is set.
startPruning(interval) == TRUE

\* checkPruneTimer: stopPruning when both maps are empty.
checkPruneTimer(interval, bots, agents) ==
    IF DOMAIN bots = {} /\ DOMAIN agents = {} THEN FALSE ELSE interval

\* entries of a list other than target r (filter by object identity)
Without(list, r) == SelectSeq(list, LAMBDA entry : entry # r)

\* registerWecomWebhookTarget: the target is appended to the list of its
\* path.  A registration is known by its place in `registrations`.
RegisterBot(path) ==
    /\ Len(registrations) < MaxRegistrations
    /\ LET r == Len(registrations) + 1
           existing == IF Has(webhookTargets, path) THEN webhookTargets[path] ELSE <<>>
       IN /\ webhookTargets' = Put(webhookTargets, path, Append(existing, r))
          /\ registrations' = Append(registrations,
                                     [kind |-> "bot", path |-> path, live |-> TRUE])
    /\ pruneInterval' = startPruning(pruneInterval)
    /\ UNCHANGED agentTargets
    /\ UNCHANGED <<storeVars, tokenVars, runVars, agentVars, callVars, timerVars, replyVars>>

\* registerAgentWebhookTarget: the target is set under the one agent path.
RegisterAgent ==
    /\ Len(registrations) < MaxRegistrations
    /\ LET r == Len(registrations) + 1
       IN /\ agentTargets' = Put(agentTargets, AgentPath, r)
          /\ registrations' = Append(registrations,
                                     [kind |-> "agent", path |-> AgentPath, live |-> TRUE])
    /\ pruneInterval' = startPruning(pruneInterval)
    /\ UNCHANGED webhookTargets
    /\ UNCHANGED <<storeVars, tokenVars, runVars, agentVars, callVars, timerVars, replyVars>>

\* The function returned by registerWecomWebhookTarget for registration r.
UnregisterBot(r) ==
    /\ r \in DOMAIN registrations
    /\ registrations[r].kind = "bot" /\ registrations[r].live
    /\ LET key == registrations[r].path
           updated == Without(IF Has(webhookTargets, key) THEN webhookTargets[key]
                              ELSE <<>>, r)
           bots == IF updated # <<>> THEN Put(webhookTargets, key, updated)
                   ELSE Delete(webhookTargets, key)
       IN /\ webhookTargets' = bots
          /\ pruneInterval' = checkPruneTimer(pruneInterval, bots, agentTargets)
    /\ registrations' = [registrations EXCEPT ![r].live = FALSE]
    /\ UNCHANGED agentTargets
    /\ UNCHANGED <<storeVars, tokenVars, runVars, agentVars, callVars, timerVars, replyVars>>

\* The function returned by registerAgentWebhookTarget for registration r:
\* it deletes the agent path, whoever is registered under it.
UnregisterAgent(r) ==
    /\ r \in DOMAIN registrations
    /\ registrations[r].kind = "agent" /\ registrations[r].live
    /\ LET agents == Delete(agentTargets, AgentPath)
       IN /\ agentTargets' = agents
          /\ pruneInterval' = checkPruneTimer(pruneInterval, webhookTargets, agents)
    /\ registrations' = [registrations EXCEPT ![r].live = FALSE]
    /\ UNCHANGED webhookTargets
    /\ UNCHANGED <<storeVars, tokenVars, runVars, agentVars, callVars, timerVars, replyVars>>

TargetsSpecInit ==
    /\ StoreInit /\ TokenInit /\ RunIdle /\ TargetsInit /\ AgentInit /\ TimersInit /\ ReplyInit /\ CallIdle

NextTargets ==
    \/ \E path \in BotPaths : RegisterBot(path)
    \/ RegisterAgent
    \/ \E r \in 1..MaxRegistrations : UnregisterBot(r)
    \/ \E r \in 1..MaxRegistrations : UnregisterAgent(r)

SpecTargets == TargetsSpecInit /\ [][NextTargets]_vars

-----------------------------------------------------------------------------
(* The Application callback and its MsgId dedupe (api-client.ts 363-376,     *)
(* 551-634)                                                                   *)

RECENT_MSGID_TTL_MS == 10 * 60 * 1000

MaxAgentPosts == 3
MaxAgentTicks == 3
AgentTickMs == 5 * 60 * 1000

\* the MsgId of a callback; "" stands for a message without MsgId
AgentMsgIds == {"", "m1", "m2"}

\* rememberAgentMsgId with the test of the age left out
rememberAgentMsgId_NoTtl(recent, msgId, t) ==
    LET set == Put(recent, msgId, t)
        stale == {k \in DOMAIN set : t - set[k] >= RECENT_MSGID_TTL_MS}
    IN [ok |-> TRUE,
        recent |-> [k \in DOMAIN set \ stale |-> set[k]]]

\* rememberAgentMsgId: false for a MsgId remembered less than the TTL ago;
\* otherwise the MsgId is stored with the time and the stale entries go.
rememberAgentMsgId(recent, msgId, t) ==
    IF Has(recent, msgId) /\ recent[msgId] # 0
       /\ t - recent[msgId] < RECENT_MSGID_TTL_MS
    THEN [ok |-> FALSE, recent |-> recent]
    ELSE LET set == Put(recent, msgId, t)
             stale == {k \in DOMAIN set : t - set[k] >= RECENT_MSGID_TTL_MS}
         IN [ok |-> TRUE,
             recent |-> [k \in DOMAIN set \ stale |-> set[k]]]

\* A POST reaches handleMessageCallback, which awaits the raw body.
AgentPostArrive(h, msgId, valid) ==
    /\ nAgentPosts < MaxAgentPosts
    /\ agentReqs[h].pc # "body"
    /\ agentReqs' = [agentReqs EXCEPT ![h] =
                        [pc |-> "body", msgId |-> msgId, valid |-> valid,
                         status |-> 0, body |-> "", started |-> FALSE]]
    /\ nAgentPosts' = nAgentPosts + 1
    /\ UNCHANGED <<recentAgentMsgIds, processed, agentNow>>
    /\ UNCHANGED <<storeVars, tokenVars, runVars, targetVars, callVars, timerVars, replyVars>>

\* The rest of handleMessageCallback, which runs without a suspension: the
\* signature, the decryption, the dedupe, the answer and the start of
\* processAgentMessage.
AgentHandle(h) ==
    /\ agentReqs[h].pc = "body"
    /\ LET req == agentReqs[h]
           remembered == rememberAgentMsgId(recentAgentMsgIds, req.msgId, agentNow)
       IN IF ~req.valid
          THEN /\ agentReqs' = [agentReqs EXCEPT ![h] =
                      [req EXCEPT !.pc = "done", !.status = 401,
                                  !.body = "unauthorized"]]
               /\ UNCHANGED <<recentAgentMsgIds, processed>>
          ELSE IF req.msgId # "" /\ ~remembered.ok
          THEN /\ agentReqs' = [agentReqs EXCEPT ![h] =
                      [req EXCEPT !.pc = "done", !.status = 200, !.body = "success"]]
               /\ UNCHANGED <<recentAgentMsgIds, processed>>
          ELSE /\ agentReqs' = [agentReqs EXCEPT ![h] =
                      [req EXCEPT !.pc = "done", !.status = 200, !.body = "success",
                                  !.started = TRUE]]
               /\ recentAgentMsgIds' = IF req.msgId # "" THEN remembered.recent
                                       ELSE recentAgentMsgIds
               /\ processed' = Append(processed, [msgId |-> req.msgId, at |-> agentNow])
    /\ UNCHANGED <<agentNow, nAgentPosts>>
    /\ UNCHANGED <<storeVars, tokenVars, runVars, targetVars, callVars, timerVars, replyVars>>

\* Time passes.
AgentTick ==
    /\ agentNow < AgentEpoch + MaxAgentTicks * AgentTickMs
    /\ agentNow' = agentNow + AgentTickMs
    /\ UNCHANGED <<recentAgentMsgIds, agentReqs, processed, nAgentPosts>>
    /\ UNCHANGED <<storeVars, tokenVars, runVars, targetVars, callVars, timerVars, replyVars>>

AgentSpecInit ==
    /\ StoreInit /\ TokenInit /\ RunIdle /\ TargetsInit /\ AgentInit /\ TimersInit /\ ReplyInit /\ CallIdle

NextAgent ==
    \/ \E h \in Handlers, msgId \in AgentMsgIds, valid \in BOOLEAN :
          AgentPostArrive(h, msgId, valid)
    \/ \E h \in Handlers : AgentHandle(h)
    \/ AgentTick

SpecAgent == AgentSpecInit /\ [][NextAgent]_vars

-----------------------------------------------------------------------------
(* The files that deliver reads for one block (monitor.ts 399-420,           *)
(* 1139-1243).  A text is the set of path-like words in it.                   *)

\* the words that can stand in a text or in mediaUrls
PathWords == {"/tmp/a.png", "/Users/u/b.jpg", "/tmp/notes.txt", "/etc/passwd",
              "https://h/c.png"}

\* the regular expression of extractLocalImagePathsFromText:
\* (/(?:Users|tmp)/[^\s"'<>]+?\.(png|jpg|jpeg|gif|webp|bmp))
MatchesLocalImage(p) == p \in {"/tmp/a.png", "/Users/u/b.jpg"}

\* /^https?:\/\//i
looksLikeUrl(p) == p \in {"https://h/c.png"}

\* extractLocalImagePathsFromText: the matches of the text that the user's
\* message holds too
extractLocalImagePathsFromText(text, mustAlsoAppearIn) ==
    {p \in text : MatchesLocalImage(p) /\ p \in mustAlsoAppearIn}

\* The files deliver reads with fs.readFile for one payload: the paths
\* inferred from the text when the payload declares no media, then, unless
\* the timeout switch returns first, every declared media path that is no URL.
LocalReads(block) ==
    LET inferred == IF block.mediaUrls = <<>> /\ block.text # {}
                    THEN extractLocalImagePathsFromText(block.text, block.rawBody)
                    ELSE {}
        declared == IF block.nearTimeout THEN {}
                    ELSE {block.mediaUrls[n] : n \in DOMAIN block.mediaUrls}
    IN [done |-> TRUE,
        inferred |-> inferred,
        read |-> inferred \cup {p \in declared : ~looksLikeUrl(p)},
        fetched |-> {p \in declared : looksLikeUrl(p)}]

\* The blocks: the text of the model, the media it declares, the raw body of
\* the user's message, and whether the run is near the Bot window's end.
Blocks ==
    [fn : {"deliver"},
     text : SUBSET PathWords,
     mediaUrls : {<<>>} \cup {<<p>> : p \in PathWords},
     rawBody : SUBSET {"/tmp/a.png", "/tmp/notes.txt", "/etc/passwd"},
     nearTimeout : BOOLEAN]

MediaInit ==
    /\ StoreInit /\ TokenInit /\ RunIdle /\ TargetsInit /\ AgentInit /\ TimersInit /\ ReplyInit
    /\ call \in Blocks
    /\ returned = NotReturned

DeliverMedia ==
    /\ call.fn = "deliver"
    /\ ~returned.done
    /\ returned' = LocalReads(call)
    /\ UNCHANGED <<storeVars, tokenVars, runVars, targetVars, agentVars, timerVars, replyVars, call>>

NextMedia == DeliverMedia

SpecMedia == MediaInit /\ [][NextMedia]_vars

-----------------------------------------------------------------------------
(* resolveWecomTarget (target.ts 37-80).  A target string is a sequence of    *)
(* words: the prefixes the function looks for, in lower and in mixed case,    *)
(* and pieces of an id.                                                       *)

MaxTargetLen == 3

TargetWords == {"wecom:", "WeCom-Agent:", "user:", "Chat:", "group:", "party:",
                "dept:", "tag:", "wr", "WC", "7", "x", " "}

RawTargets == UNION {[1..n -> TargetWords] : n \in 0..MaxTargetLen}

\* the i flag of the regular expressions, and toLowerCase
LowerWord(w) ==
    CASE w = "WeCom-Agent:" -> "wecom-agent:"
      [] w = "Chat:" -> "chat:"
      [] w = "WC" -> "wc"
      [] OTHER -> w

\* String.prototype.trim
RECURSIVE TrimTargetStart(_)
TrimTargetStart(s) ==
    IF s # <<>> /\ Head(s) = " " THEN TrimTargetStart(Tail(s)) ELSE s

RECURSIVE TrimTargetEnd(_)
TrimTargetEnd(s) ==
    IF s # <<>> /\ s[Len(s)] = " " THEN TrimTargetEnd(SubSeq(s, 1, Len(s) - 1)) ELSE s

TrimTarget(s) == TrimTargetEnd(TrimTargetStart(s))

\* /^prefix/i.test(s)
StartsWithWord(s, prefixes) == s # <<>> /\ LowerWord(Head(s)) \in prefixes

\* replace(/^(wecom-agent|wecom|wechatwork|wework|qywx):/i, "")
StripNamespace(s) ==
    IF StartsWithWord(s, {"wecom-agent:", "wecom:"}) THEN Tail(s) ELSE s

\* /^\d+$/.test(s)
AllDigits(s) == s # <<>> /\ \A n \in DOMAIN s : s[n] = "7"

NoTarget == [kind |-> "undefined", id |-> <<>>]

\* resolveWecomTarget with the heuristics tried before the explicit prefixes
resolveWecomTarget_HeuristicsFirst(raw) ==
    IF TrimTarget(raw) = <<>> THEN NoTarget
    ELSE LET clean == StripNamespace(TrimTarget(raw))
             rest == TrimTarget(Tail(clean))
         IN IF StartsWithWord(clean, {"wr", "wc"}) THEN [kind |-> "chat", id |-> clean]
            ELSE IF AllDigits(clean) \/ (clean # <<>> /\ AllDigits(rest))
                 THEN [kind |-> "party", id |-> clean]
            ELSE IF StartsWithWord(clean, {"party:", "dept:"})
                 THEN [kind |-> "party", id |-> rest]
            ELSE IF StartsWithWord(clean, {"tag:"}) THEN [kind |-> "tag", id |-> rest]
            ELSE IF StartsWithWord(clean, {"group:", "chat:"})
                 THEN [kind |-> "chat", id |-> rest]
            ELSE IF StartsWithWord(clean, {"user:"}) THEN [kind |-> "user", id |-> rest]
            ELSE [kind |-> "user", id |-> clean]

\* resolveWecomTarget: the kind of the one key of the object returned and
\* its value
resolveWecomTarget(raw) ==
    IF TrimTarget(raw) = <<>> THEN NoTarget
    ELSE LET clean == StripNamespace(TrimTarget(raw))
             rest == TrimTarget(Tail(clean))
         IN IF StartsWithWord(clean, {"party:", "dept:"})
            THEN [kind |-> "party", id |-> rest]
            ELSE IF StartsWithWord(clean, {"tag:"}) THEN [kind |-> "tag", id |-> rest]
            ELSE IF StartsWithWord(clean, {"group:", "chat:"})
                 THEN [kind |-> "chat", id |-> rest]
            ELSE IF StartsWithWord(clean, {"user:"}) THEN [kind |-> "user", id |-> rest]
            ELSE IF StartsWithWord(clean, {"wr", "wc"}) THEN [kind |-> "chat", id |-> clean]
            ELSE IF AllDigits(clean) THEN [kind |-> "party", id |-> clean]
            ELSE [kind |-> "user", id |-> clean]

TargetInit ==
    /\ StoreInit /\ TokenInit /\ RunIdle /\ TargetsInit /\ AgentInit /\ TimersInit /\ ReplyInit
    /\ call \in [fn : {"resolveWecomTarget"}, raw : RawTargets]
    /\ returned = NotReturned

ResolveTarget ==
    /\ call.fn = "resolveWecomTarget"
    /\ ~returned.done
    /\ returned' = [done |-> TRUE, target |-> resolveWecomTarget(call.raw)]
    /\ UNCHANGED <<storeVars, tokenVars, runVars, targetVars, agentVars, timerVars, replyVars, call>>

NextTarget == ResolveTarget

SpecTarget == TargetInit /\ [][NextTarget]_vars

-----------------------------------------------------------------------------
(* wecomOutbound.sendText and sendMedia (outbound.ts 32-180)                  *)

\* what a call of the adapter has made of itself: the error thrown ("" for
\* none), the requests made to WeCom and whether the message was suppressed
Sent(error, calls, suppressed) ==
    [done |-> TRUE, error |-> error, calls |-> calls, suppressed |-> suppressed]

\* if (chatid): the target names a chat and the id is not the empty string
HasChatId(target) == target.kind = "chat" /\ target.id # <<>>

\* rawTo.startsWith("wecom-agent:")
isAgentSessionTarget(to) ==
    StartsWithWord(TrimTarget(to), {"wecom-agent:"})

\* sendText: the acknowledgement of /new is suppressed for a target that is
\* no agent session; a chat target is refused; otherwise the token is asked
\* for and the message sent.
sendText(c) ==
    LET target == resolveWecomTarget(c.to) IN
    IF ~c.agentConfigured THEN Sent("agent", <<>>, FALSE)
    ELSE IF target = NoTarget THEN Sent("target", <<>>, FALSE)
    ELSE IF c.looksLikeNewSessionAck /\ ~isAgentSessionTarget(c.to)
         THEN Sent("", <<>>, TRUE)
    ELSE IF HasChatId(target) THEN Sent("chat", <<>>, FALSE)
    ELSE Sent(IF c.apiOk THEN "" ELSE "send", <<"gettoken", "message/send">>, FALSE)

\* sendMedia: a chat target is refused before the media is loaded, uploaded
\* and sent.
sendMedia(c) ==
    LET target == resolveWecomTarget(c.to) IN
    IF ~c.agentConfigured THEN Sent("agent", <<>>, FALSE)
    ELSE IF target = NoTarget THEN Sent("target", <<>>, FALSE)
    ELSE IF HasChatId(target) THEN Sent("chat", <<>>, FALSE)
    ELSE IF ~c.hasMediaUrl THEN Sent("mediaUrl", <<>>, FALSE)
    ELSE Sent(IF c.apiOk THEN "" ELSE "send",
              <<"load", "gettoken", "media/upload", "message/send">>, FALSE)

\* the targets of the outbound calls: up to two words
OutboundTargets == {raw \in RawTargets : Len(raw) <= 2}

OutboundInit ==
    /\ StoreInit /\ TokenInit /\ RunIdle /\ TargetsInit /\ AgentInit /\ TimersInit /\ ReplyInit
    /\ call \in [fn : {"sendText", "sendMedia"}, to : OutboundTargets,
                 agentConfigured : BOOLEAN, looksLikeNewSessionAck : BOOLEAN,
                 hasMediaUrl : BOOLEAN, apiOk : BOOLEAN]
    /\ returned = NotReturned

SendText ==
    /\ call.fn = "sendText"
    /\ ~returned.done
    /\ returned' = sendText(call)
    /\ UNCHANGED <<storeVars, tokenVars, runVars, targetVars, agentVars, timerVars, replyVars, call>>

SendMedia ==
    /\ call.fn = "sendMedia"
    /\ ~returned.done
    /\ returned' = sendMedia(call)
    /\ UNCHANGED <<storeVars, tokenVars, runVars, targetVars, agentVars, timerVars, replyVars, call>>

NextOutbound == SendText \/ SendMedia

SpecOutbound == OutboundInit /\ [][NextOutbound]_vars

-----------------------------------------------------------------------------
(* The envelope codec (crypto.ts: pkcs7Pad, pkcs7Unpad, decryptWecomEncrypted, *)
(* encryptWecomPlaintext).  Buffers are sequences of bytes, strings sequences *)
(* of code points.                                                            *)

WECOM_PKCS7_BLOCK_SIZE == 32
AES_BLOCK_SIZE == 16
MaxPlainLen == 13

\* Buffer.alloc(n, b)
Filled(n, b) == [i \in 1..n |-> b]

\* Buffer.from(string, "utf8") for code points below 0x800
RECURSIVE Utf8Encode(_)
Utf8Encode(str) ==
    IF str = <<>> THEN <<>>
    ELSE (IF Head(str) < 128 THEN <<Head(str)>>
          ELSE <<192 + (Head(str) \div 64), 128 + (Head(str) % 64)>>)
         \o Utf8Encode(Tail(str))

\* buf.toString("utf8"): a lead byte without its continuation byte gives
\* U+FFFD
RECURSIVE Utf8Decode(_)
Utf8Decode(buf) ==
    IF buf = <<>> THEN <<>>
    ELSE IF Head(buf) < 128 THEN <<Head(buf)>> \o Utf8Decode(Tail(buf))
    ELSE IF Head(buf) >= 192 /\ Head(buf) < 224 /\ Len(buf) >= 2
            /\ buf[2] >= 128 /\ buf[2] < 192
         THEN <<(Head(buf) - 192) * 64 + (buf[2] - 128)>>
              \o Utf8Decode(Tail(Tail(buf)))
    ELSE <<65533>> \o Utf8Decode(Tail(buf))

\* writeUInt32BE / readUInt32BE
UInt32BE(n) ==
    <<(n \div 16777216) % 256, (n \div 65536) % 256, (n \div 256) % 256, n % 256>>

readUInt32BE(buf, at) ==
    buf[at + 1] * 16777216 + buf[at + 2] * 65536 + buf[at + 3] * 256 + buf[at + 4]

\* toString("base64") and Buffer.from(s, "base64"): a byte becomes two
\* symbols of the encoded string
RECURSIVE ToBase64(_)
ToBase64(buf) ==
    IF buf = <<>> THEN <<>>
    ELSE <<Head(buf) \div 16, Head(buf) % 16>> \o ToBase64(Tail(buf))

RECURSIVE FromBase64(_)
FromBase64(s) ==
    IF Len(s) < 2 THEN <<>>
    ELSE <<s[1] * 16 + s[2]>> \o FromBase64(Tail(Tail(s)))

\* aes-256-cbc without automatic padding: each byte is combined with the key
\* and with the cipher byte before it, the first with the iv, which is the
\* head of the key.
RECURSIVE CbcEncrypt(_, _, _)
CbcEncrypt(key, prev, plain) ==
    IF plain = <<>> THEN <<>>
    ELSE LET c == (Head(plain) + key + prev) % 256
         IN <<c>> \o CbcEncrypt(key, c, Tail(plain))

RECURSIVE CbcDecrypt(_, _, _)
CbcDecrypt(key, prev, cipher) ==
    IF cipher = <<>> THEN <<>>
    ELSE <<(Head(cipher) + 512 - key - prev) % 256>>
         \o CbcDecrypt(key, Head(cipher), Tail(cipher))

\* pkcs7Pad that adds nothing to a buffer of whole blocks
pkcs7Pad_NoFullBlock(buf, blockSize) ==
    LET mod == Len(buf) % blockSize
        pad == IF mod = 0 THEN 0 ELSE blockSize - mod
    IN buf \o Filled(pad, pad)

\* pkcs7Pad
pkcs7Pad(buf, blockSize) ==
    LET mod == Len(buf) % blockSize
        pad == IF mod = 0 THEN blockSize ELSE blockSize - mod
    IN buf \o Filled(pad, pad)

\* pkcs7Unpad: the buffer without its padding, or the error thrown
pkcs7Unpad(buf, blockSize) ==
    IF Len(buf) = 0 THEN [error |-> "invalid pkcs7 payload", buf |-> <<>>]
    ELSE LET pad == buf[Len(buf)] IN
         IF pad < 1 \/ pad > blockSize
         THEN [error |-> "invalid pkcs7 padding", buf |-> <<>>]
         ELSE IF pad > Len(buf)
         THEN [error |-> "invalid pkcs7 payload", buf |-> <<>>]
         ELSE IF \E i \in 0..(pad - 1) : buf[Len(buf) - i] # pad
         THEN [error |-> "invalid pkcs7 padding", buf |-> <<>>]
         ELSE [error |-> "", buf |-> SubSeq(buf, 1, Len(buf) - pad)]

\* encryptWecomPlaintext: random16, length, message and receiver id, padded,
\* enciphered and encoded; final() throws on a length that is no multiple of
\* the AES block.
encryptWecomPlaintext(key, receiveId, plaintext, random16) ==
    LET msg == Utf8Encode(plaintext)
        raw == random16 \o UInt32BE(Len(msg)) \o msg \o Utf8Encode(receiveId)
        padded == pkcs7Pad(raw, WECOM_PKCS7_BLOCK_SIZE)
    IN IF Len(padded) % AES_BLOCK_SIZE # 0
       THEN [error |-> "wrong final block length", encrypt |-> <<>>,
             rawLen |-> Len(raw), paddedLen |-> Len(padded)]
       ELSE [error |-> "", encrypt |-> ToBase64(CbcEncrypt(key, key, padded)),
             rawLen |-> Len(raw), paddedLen |-> Len(padded)]

\* decryptWecomEncrypted: the message, or the error thrown
decryptWecomEncrypted(key, receiveId, encrypt) ==
    LET cipher == FromBase64(encrypt)
        unpadded == pkcs7Unpad(CbcDecrypt(key, key, cipher), WECOM_PKCS7_BLOCK_SIZE)
        decrypted == unpadded.buf
        msgEnd == 20 + readUInt32BE(decrypted, 16)
    IN IF Len(cipher) % AES_BLOCK_SIZE # 0
       THEN [error |-> "wrong final block length", msg |-> <<>>]
       ELSE IF unpadded.error # "" THEN [error |-> unpadded.error, msg |-> <<>>]
       ELSE IF Len(decrypted) < 20
       THEN [error |-> "invalid decrypted payload", msg |-> <<>>]
       ELSE IF msgEnd > Len(decrypted)
       THEN [error |-> "invalid decrypted msg length", msg |-> <<>>]
       ELSE IF receiveId # <<>>
               /\ Utf8Decode(SubSeq(decrypted, msgEnd + 1, Len(decrypted))) # receiveId
       THEN [error |-> "receiveId mismatch", msg |-> <<>>]
       ELSE [error |-> "", msg |-> Utf8Decode(SubSeq(decrypted, 21, msgEnd))]

\* The plaintexts: n code points, all `fill` but the last, which is `last`;
\* 1 and 32 are code points that look like padding bytes, 233 takes two bytes.
Plaintexts ==
    {[i \in 1..n |-> IF i = n THEN last ELSE fill] :
        n \in 0..MaxPlainLen, fill \in {120, 233}, last \in {1, 32, 120, 233}}

ReceiveIds == {<<>>, <<99>>, <<99, 111, 114, 112>>}

EnvelopeInit ==
    /\ StoreInit /\ TokenInit /\ RunIdle /\ TargetsInit /\ AgentInit /\ TimersInit /\ ReplyInit
    /\ call \in [fn : {"encryptWecomPlaintext"},
                 key : {3, 200},
                 receiveId : ReceiveIds,
                 plaintext : Plaintexts,
                 random16 : {Filled(16, 0), Filled(16, 32)}]
    /\ returned = NotReturned

\* encryptWecomPlaintext is called.
Encrypt ==
    /\ call.fn = "encryptWecomPlaintext"
    /\ returned = NotReturned
    /\ LET e == encryptWecomPlaintext(call.key, call.receiveId, call.plaintext,
                                      call.random16)
       IN returned' = [done |-> e.error # "", error |-> e.error,
                       encrypt |-> e.encrypt, rawLen |-> e.rawLen,
                       paddedLen |-> e.paddedLen, msg |-> <<>>]
    /\ UNCHANGED <<storeVars, tokenVars, runVars, targetVars, agentVars, timerVars, replyVars, call>>

\* decryptWecomEncrypted is called with what encryptWecomPlaintext returned,
\* and the same key and receiver id.
Decrypt ==
    /\ call.fn = "encryptWecomPlaintext"
    /\ returned # NotReturned /\ ~returned.done
    /\ LET d == decryptWecomEncrypted(call.key, call.receiveId, returned.encrypt)
       IN returned' = [returned EXCEPT !.done = TRUE, !.error = d.error,
                                       !.msg = d.msg]
    /\ UNCHANGED <<storeVars, tokenVars, runVars, targetVars, agentVars, timerVars, replyVars, call>>

NextEnvelope == Encrypt \/ Decrypt

SpecEnvelope == EnvelopeInit /\ [][NextEnvelope]_vars

-----------------------------------------------------------------------------
(* The ActiveReplyStore: response_url per stream, its use and its TTL *)

ACTIVE_REPLY_TTL_MS == 60 * 60 * 1000

MaxReplyCalls == 3
MaxReplyTicks == 3

(* half an hour passes between two observations of the clock *)
ReplyTickMs == 30 * 60 * 1000

ReplyStreamIds == {1, 2}

(* msg.response_url as it arrives: missing, blank, or a URL, padded or not *)
RawResponseUrls == {<<>>, <<" ">>, <<"https://u1">>, <<" ", "https://u2", " ">>}

(* store(streamId, responseUrl): a blank url is not stored; the entry is a  *)
(* new object, named by the number of the call that made it                 *)
store(replies, streamId, responseUrl, obj, t) ==
    LET url == TrimTarget(responseUrl) IN
    IF url = <<>> THEN replies
    ELSE Put(replies, streamId,
             [obj |-> obj, response_url |-> url, createdAt |-> t,
              usedAt |-> NoTime, lastError |-> ""])

(* getUrl(streamId) *)
getUrl(replies, streamId) ==
    IF Has(replies, streamId) THEN replies[streamId].response_url ELSE <<>>

(* use(streamId, fn) up to its await: nothing stored, the url already used  *)
(* under policy "once", or fn called with the stored url                    *)
useCall(replies, policy, streamId) ==
    IF getUrl(replies, streamId) = <<>>
    THEN [IdleUse EXCEPT !.pc = "returned", !.streamId = streamId]
    ELSE IF policy = "once" /\ replies[streamId].usedAt # NoTime
    THEN [IdleUse EXCEPT !.pc = "thrown", !.streamId = streamId,
                         !.error = "already used"]
    ELSE [pc |-> "awaiting", streamId |-> streamId, obj |-> replies[streamId].obj,
          responseUrl |-> replies[streamId].response_url, error |-> ""]

(* the same with usedAt set whatever fn does *)
useSettle_AlwaysUsed(replies, u, error, t) ==
    IF Has(replies, u.streamId) /\ replies[u.streamId].obj = u.obj
    THEN IF error = ""
         THEN [replies EXCEPT ![u.streamId].usedAt = t]
         ELSE [replies EXCEPT ![u.streamId].usedAt = t,
                              ![u.streamId].lastError = error]
    ELSE replies

(* use after the await: state.usedAt = Date.now(), or in the catch           *)
(* state.lastError = the message; state is the object read before the await, *)
(* which the map may hold no more                                            *)
useSettle(replies, u, error, t) ==
    IF Has(replies, u.streamId) /\ replies[u.streamId].obj = u.obj
    THEN IF error = ""
         THEN [replies EXCEPT ![u.streamId].usedAt = t]
         ELSE [replies EXCEPT ![u.streamId].lastError = error]
    ELSE replies

(* the removal at exactly the TTL as well *)
pruneReplies_AtTtl(replies, t) ==
    LET cutoff == t - ACTIVE_REPLY_TTL_MS IN
    [id \in {i \in DOMAIN replies : ~(replies[i].createdAt <= cutoff)} |-> replies[id]]

(* ActiveReplyStore.prune(now) *)
pruneReplies(replies, t) ==
    LET cutoff == t - ACTIVE_REPLY_TTL_MS IN
    [id \in {i \in DOMAIN replies : ~(replies[i].createdAt < cutoff)} |-> replies[id]]

(* The webhook handler stores the response_url of a message for the stream  *)
(* of its batch; it does so before the run of that stream makes any use.    *)
StoreReply(streamId, responseUrl) ==
    /\ nReplyCalls < MaxReplyCalls
    /\ \A c \in Handlers : uses[c].streamId # streamId
    /\ nReplyCalls' = nReplyCalls + 1
    /\ activeReplies' = store(activeReplies, streamId, responseUrl,
                              nReplyCalls + 1, replyNow)
    /\ UNCHANGED <<uses, replyNow>>
    /\ UNCHANGED <<storeVars, tokenVars, runVars, targetVars, agentVars,
                   callVars, timerVars>>

(* use(streamId, fn) is called by the first caller that is not awaiting.    *)
UseBegin(c, streamId) ==
    /\ uses[c].pc # "awaiting"
    /\ \A b \in Handlers : b < c => uses[b].pc = "awaiting"
    /\ nReplyCalls < MaxReplyCalls
    /\ nReplyCalls' = nReplyCalls + 1
    /\ uses' = [uses EXCEPT ![c] = useCall(activeReplies, "multi", streamId)]
    /\ UNCHANGED <<activeReplies, replyNow>>
    /\ UNCHANGED <<storeVars, tokenVars, runVars, targetVars, agentVars,
                   callVars, timerVars>>

(* fn settles: it resolves (error "") or rejects with an error.             *)
UseSettle(c, error) ==
    /\ uses[c].pc = "awaiting"
    /\ activeReplies' = useSettle(activeReplies, uses[c], error, replyNow)
    /\ uses' = [uses EXCEPT ![c] =
                   [@ EXCEPT !.pc = IF error = "" THEN "returned" ELSE "thrown",
                             !.error = error]]
    /\ UNCHANGED <<replyNow, nReplyCalls>>
    /\ UNCHANGED <<storeVars, tokenVars, runVars, targetVars, agentVars,
                   callVars, timerVars>>

ReplyTick ==
    /\ replyNow < MaxReplyTicks * ReplyTickMs
    /\ replyNow' = replyNow + ReplyTickMs
    /\ UNCHANGED <<activeReplies, uses, nReplyCalls>>
    /\ UNCHANGED <<storeVars, tokenVars, runVars, targetVars, agentVars,
                   callVars, timerVars>>

(* The prune interval fires: activeReplyStore.prune(Date.now()).            *)
ReplyPrune ==
    /\ activeReplies' = pruneReplies(activeReplies, replyNow)
    /\ activeReplies' # activeReplies
    /\ UNCHANGED <<uses, replyNow, nReplyCalls>>
    /\ UNCHANGED <<storeVars, tokenVars, runVars, targetVars, agentVars,
                   callVars, timerVars>>

NextReply ==
    \/ \E streamId \in ReplyStreamIds, responseUrl \in RawResponseUrls :
          StoreReply(streamId, responseUrl)
    \/ \E c \in Handlers, streamId \in ReplyStreamIds : UseBegin(c, streamId)
    \/ \E c \in Handlers, error \in {"", "push failed: 500"} : UseSettle(c, error)
    \/ ReplyTick
    \/ ReplyPrune

SpecReply == Init /\ [][NextReply]_vars

-----------------------------------------------------------------------------
(* One run of the prune interval over stores of every age *)

(* created or updated one millisecond more than ttl ago, exactly ttl ago,   *)
(* one millisecond less than ttl ago                                        *)
AgesAround(ttl) == {now - ttl - 1, now - ttl, now - ttl + 1}

(* The store after message 1 was admitted (stream 1, the active batch) and  *)
(* message 2 queued behind it (stream 2), with the given times of the last  *)
(* update of the streams and of the creation of the pending batches.        *)
AgedStore(c, updated, created) ==
    LET r1 == addPendingMessage(NewStore, c, "m1", 1)
        r2 == addPendingMessage(r1.store, c, "m2", 2)
        queued == QueuedBatchKey(c, 1)
    IN [r2.store EXCEPT !.streams[1].updatedAt = updated[1],
                        !.streams[2].updatedAt = updated[2],
                        !.pendingInbounds[c].createdAt = created[1],
                        !.pendingInbounds[queued].createdAt = created[2]]

AgedStores ==
    {AgedStore(c, updated, created) :
        c \in ConversationKeys,
        updated \in [1..2 -> AgesAround(STREAM_TTL_MS)],
        created \in [1..2 -> AgesAround(STREAM_TTL_MS)]}

(* the response_urls stored for some of the streams, at the given times     *)
AgedReplies ==
    UNION {{[id \in ids |->
               [obj |-> id, response_url |-> <<"https://u1">>,
                createdAt |-> created[id], usedAt |-> NoTime, lastError |-> ""]] :
            created \in [ids -> AgesAround(ACTIVE_REPLY_TTL_MS)]} :
           ids \in SUBSET ReplyStreamIds}

PruneInit ==
    /\ StoreInit /\ TokenInit /\ RunIdle /\ TargetsInit /\ AgentInit
    /\ TimersInit /\ ReplyInit
    /\ call \in [fn : {"prune"}, store : AgedStores, replies : AgedReplies]
    /\ returned = NotReturned

(* The prune interval fires: streamStore.prune(now), activeReplyStore.prune(now). *)
PruneCall ==
    /\ call.fn = "prune"
    /\ ~returned.done
    /\ returned' = [done |-> TRUE,
                    store |-> prune(call.store),
                    replies |-> pruneReplies(call.replies, now)]
    /\ UNCHANGED <<storeVars, tokenVars, runVars, targetVars, agentVars,
                   timerVars, replyVars, call>>

NextPrune == PruneCall

SpecPrune == PruneInit /\ [][NextPrune]_vars

-----------------------------------------------------------------------------
(* Properties of the access-token cache *)

PendingRefreshes(cacheKey) ==
    {p \in 1..Len(refreshes) : /\ refreshes[p].cacheKey = cacheKey
                               /\ refreshes[p].state = "pending"}

(* the caller that makes a call in this step, with the key it gives *)
Calls(c, cacheKey) ==
    /\ nCalls' = nCalls + 1
    /\ callers'[c] # callers[c]
    /\ callers'[c].cacheKey = cacheKey

(* C13: for one (corpId, agentId) key at most one token refresh is in flight *)
(* at any time, and the cache's marker is that refresh; a call made while a  *)
(* refresh of its key is pending awaits that same refresh and sends no       *)
(* request to the token endpoint; a request is sent only when no refresh of  *)
(* the key is pending; and every caller that awaited a refresh returns with  *)
(* the result of that refresh.                                               *)
C13_SingleFlightRefresh ==
    /\ [](\A k \in TokenKeys :
            /\ Cardinality(PendingRefreshes(k)) <= 1
            /\ \A p \in PendingRefreshes(k) :
                  Has(tokenCaches, k) /\ tokenCaches[k].refreshPromise = p)
    /\ [](\A c \in Callers :
            /\ callers[c].pc = "awaiting" =>
                  /\ callers[c].promise \in 1..Len(refreshes)
                  /\ refreshes[callers[c].promise].cacheKey = callers[c].cacheKey
            /\ (callers[c].pc = "done" /\ callers[c].promise # NoPromise) =>
                  /\ refreshes[callers[c].promise].state # "pending"
                  /\ callers[c].token = refreshes[callers[c].promise].token
                  /\ callers[c].error = refreshes[callers[c].promise].error)
    /\ [][\A c \in Callers, k \in TokenKeys :
            Calls(c, k) =>
               /\ \A p \in PendingRefreshes(k) :
                     /\ callers'[c].pc = "awaiting"
                     /\ callers'[c].promise = p
                     /\ refreshes' = refreshes
               /\ Len(refreshes') > Len(refreshes) => PendingRefreshes(k) = {}]_vars

(* a refresh has been awaited by two callers, who both hold its token *)
C13_Witness ==
    \E c, d \in Callers :
        /\ c # d
        /\ callers[c].pc = "done" /\ callers[d].pc = "done"
        /\ callers[c].promise # NoPromise
        /\ callers[c].promise = callers[d].promise
        /\ callers[c].token # NoToken
        /\ callers[c].token = callers[d].token

(* the last refresh started for the key, NoPromise when there is none *)
LastRefresh(cacheKey) ==
    LET ps == {p \in 1..Len(refreshes) : refreshes[p].cacheKey = cacheKey}
    IN IF ps = {} THEN NoPromise ELSE CHOOSE p \in ps : \A q \in ps : q <= p

(* C14: when a token refresh fails, the step that fails it clears the        *)
(* in-flight marker and leaves the cached token and expiry as they were;     *)
(* every caller awaiting it resumes with its error and no token; and the     *)
(* next getAccessToken call for the key starts a new refresh.                *)
C14_FailedRefresh ==
    /\ [][\A p \in 1..Len(refreshes) :
            (refreshes[p].state = "pending" /\ refreshes'[p].state = "rejected") =>
               LET k == refreshes[p].cacheKey IN
               /\ tokenCaches'[k].refreshPromise = NoPromise
               /\ tokenCaches'[k].token = tokenCaches[k].token
               /\ tokenCaches'[k].expiresAt = tokenCaches[k].expiresAt
               /\ refreshes'[p].error # ""]_vars
    /\ [][\A c \in Callers :
            (/\ callers[c].pc = "awaiting"
             /\ refreshes[callers[c].promise].state = "rejected"
             /\ callers'[c] # callers[c]) =>
               /\ callers'[c].pc = "done"
               /\ callers'[c].promise = callers[c].promise
               /\ callers'[c].error = refreshes[callers[c].promise].error
               /\ callers'[c].token = NoToken]_vars
    /\ [][\A c \in Callers, k \in TokenKeys :
            (/\ Calls(c, k)
             /\ LastRefresh(k) # NoPromise
             /\ refreshes[LastRefresh(k)].state = "rejected") =>
               /\ Len(refreshes') = Len(refreshes) + 1
               /\ refreshes'[Len(refreshes')].cacheKey = k
               /\ refreshes'[Len(refreshes')].state = "pending"
               /\ callers'[c].pc = "awaiting"
               /\ callers'[c].promise = Len(refreshes')
               /\ tokenCaches'[k].refreshPromise = Len(refreshes')]_vars

(* a caller holds the error of a failed refresh and a later refresh of the *)
(* same key is in flight                                                   *)
C14_Witness ==
    \E c \in Callers :
        /\ callers[c].pc = "done"
        /\ callers[c].error # ""
        /\ \E p \in PendingRefreshes(callers[c].cacheKey) :
              /\ p > callers[c].promise
              /\ tokenCaches[callers[c].cacheKey].refreshPromise = p

-----------------------------------------------------------------------------
(* Properties of one agent run *)

(* the stream of the run that is followed *)
RunStream == cfg.streamId

(* C11: finished is monotonic per stream. In every step (a block delivered, *)
(* the run ending before the dispatch, finalization, the catch of a failed  *)
(* run, time passing, prune) a stream that is finished before the step and  *)
(* still exists after it is still finished.                                 *)
C11_FinishedMonotonic ==
    [][\A s \in DOMAIN streams \cap DOMAIN streams' :
          streams[s].finished => streams'[s].finished]_vars

(* a block was delivered to a stream already finished by a template card, *)
(* and the stream is still finished                                        *)
C11_Witness ==
    /\ Has(streams, RunStream)
    /\ streams[RunStream].finished
    /\ Len(details[RunStream].content) > 1
    /\ Head(details[RunStream].content).kind = "card-sent"

(* the prompts the fallback switches write as the stream content *)
FallbackPrompts ==
    {buildFallbackPrompt(kind, agentConfigured, userId) :
        kind \in {"media", "timeout", "error"},
        agentConfigured \in BOOLEAN, userId \in {"", "alice", "unknown"}}
    \cup {FixedText("prompt:unauthorized")}

(* C12: once a stream is finished its content is frozen. In every step a   *)
(* stream that is finished before the step and exists after it has the     *)
(* same content after the step, unless the step writes a fallback prompt.  *)
C12_ContentFrozen ==
    [][\A s \in DOMAIN streams \cap DOMAIN streams' :
          streams[s].finished =>
             \/ details'[s].content = details[s].content
             \/ details'[s].content \in FallbackPrompts]_vars

(* the step delivers a block to the stream of the run, which exists *)
BlockDelivered ==
    /\ nBlocks' = nBlocks + 1
    /\ Has(streams, RunStream)
    /\ Has(streams', RunStream)

(* the prompt is pushed through the response_url exactly once in the step *)
PromptPushedOnce(prompt) ==
    /\ Len(outbox') > Len(outbox)
    /\ SubSeq(outbox', 1, Len(outbox)) = outbox
    /\ Cardinality({i \in (Len(outbox) + 1)..Len(outbox') :
                       /\ outbox'[i].via = "response_url"
                       /\ outbox'[i].to = RunStream
                       /\ outbox'[i].body = prompt}) = 1

(* now >= switchAt for the stream of the run *)
PastSwitchAt ==
    now >= details[RunStream].createdAt + BOT_WINDOW_MS - BOT_SWITCH_MARGIN_MS

(* the step leaves the stream of the run switched to timeout fallback, the *)
(* prompt pushed once when there is a response_url                         *)
SwitchedToTimeout ==
    /\ details'[RunStream].fallbackMode = "timeout"
    /\ streams'[RunStream].finished
    /\ details'[RunStream].content =
          buildFallbackPrompt("timeout", cfg.agentConfigured, cfg.userId)
    /\ (cfg.responseUrl => PromptPushedOnce(details'[RunStream].content))

(* C15: a block delivered at now >= createdAt + 6 min - 30 s to a stream   *)
(* that is not in fallback switches the stream to timeout fallback         *)
(* (fallbackMode timeout, finished, the content is the prompt, the prompt  *)
(* is pushed once through the response_url when there is one), and a block *)
(* delivered to a stream in timeout fallback does not change its content.  *)
C15_TimeoutSwitch ==
    [][BlockDelivered =>
         /\ ((details[RunStream].fallbackMode = "" /\ PastSwitchAt)
                => SwitchedToTimeout)
         /\ (details[RunStream].fallbackMode = "timeout"
                => details'[RunStream].content = details[RunStream].content)]_vars

(* the same for the blocks that reach the timeout check (the stream not   *)
(* finished, the block not a template card sent as a card), without the   *)
(* frozen content                                                         *)
C15_SwitchWhenChecked ==
    [][BlockDelivered =>
         ((/\ details[RunStream].fallbackMode = ""
           /\ ~streams[RunStream].finished
           /\ details'[RunStream].content # FixedText("card-sent")
           /\ PastSwitchAt)
          => SwitchedToTimeout)]_vars

(* the content of a stream in timeout fallback is changed only by a *)
(* template card sent as a card                                     *)
C15_FrozenButForCards ==
    [][BlockDelivered =>
         (details[RunStream].fallbackMode = "timeout"
          => \/ details'[RunStream].content = details[RunStream].content
             \/ details'[RunStream].content = FixedText("card-sent"))]_vars

(* the step is the normal completion of the run, its stream existing *)
RunCompletes ==
    /\ RunStream \in dispatching
    /\ RunStream \notin dispatching'
    /\ Has(streams, RunStream)
    /\ Has(streams', RunStream)
    /\ details'[RunStream].error = ""

(* the texts sent by Agent DM so far, and those sent in the step *)
DmTexts(box) == SelectSeq(box, LAMBDA m : m.via = "dm_text")

NewDmTexts == DmTexts(SubSeq(outbox', Len(outbox) + 1, Len(outbox')))

(* C16: when the run completes for a stream in timeout fallback and the    *)
(* Agent is configured, finalDeliveredAt is set and, when no final         *)
(* delivery was made before and dmContent is not blank, the whole trimmed  *)
(* dmContent is sent by one Agent DM to the user of the message (whether   *)
(* or not the send succeeds); no stream gets a second final delivery.      *)
C16_TimeoutFinalDelivery ==
    [][/\ (RunCompletes /\ details[RunStream].fallbackMode = "timeout"
                        /\ cfg.agentConfigured)
          => /\ details'[RunStream].finalDeliveredAt
             /\ IF /\ ~details[RunStream].finalDeliveredAt
                   /\ Trim(details[RunStream].dmContent) # EmptyText
                THEN \E dmOk \in BOOLEAN :
                        NewDmTexts =
                          <<[via |-> "dm_text", to |-> cfg.userId,
                             body |-> Trim(details[RunStream].dmContent),
                             ok |-> dmOk]>>
                ELSE NewDmTexts = <<>>
       /\ Len(DmTexts(outbox')) <= 1
       /\ (\A s \in DOMAIN streams \cap DOMAIN streams' :
              details[s].finalDeliveredAt => details'[s].finalDeliveredAt)]_vars

(* the run has completed in timeout fallback with the texts of two blocks *)
(* accumulated, and they were sent by one DM                              *)
C16_Witness ==
    /\ Has(streams, RunStream)
    /\ RunStream \notin running
    /\ details[RunStream].fallbackMode = "timeout"
    /\ details[RunStream].finalDeliveredAt
    /\ Len(details[RunStream].dmContent) >= 3
    /\ \E i \in 1..Len(outbox) :
          /\ outbox[i].via = "dm_text"
          /\ outbox[i].to = cfg.userId
          /\ outbox[i].body = details[RunStream].dmContent

(* the successful sends of a media path by Agent DM *)
MediaSends(box, mediaPath) ==
    {i \in 1..Len(box) : /\ box[i].via = "dm_media"
                         /\ box[i].body = Piece(mediaPath, 0, 1)
                         /\ box[i].ok}

MediaPaths == {"/tmp/report.pdf", "/tmp/chart.png"}

(* C17: within one stream a non-image path that was sent by Agent DM is  *)
(* recorded in agentMediaKeys and is not sent again: a path is sent      *)
(* successfully at most once, every path sent is recorded while the      *)
(* stream exists, and a step that finds the path recorded sends nothing  *)
(* for it.                                                               *)
C17_MediaSentOnce ==
    [][\A mediaPath \in MediaPaths :
          /\ Cardinality(MediaSends(outbox', mediaPath)) <= 1
          /\ (Has(streams', RunStream) /\ MediaSends(outbox', mediaPath) # {})
                => mediaPath \in details'[RunStream].agentMediaKeys
          /\ (Has(streams, RunStream)
               /\ mediaPath \in details[RunStream].agentMediaKeys)
                => \A i \in (Len(outbox) + 1)..Len(outbox') :
                      ~(outbox'[i].via = "dm_media"
                        /\ outbox'[i].body = Piece(mediaPath, 0, 1))]_vars

(* the same file was delivered by two blocks and sent by DM once *)
C17_Witness ==
    /\ Has(streams, RunStream)
    /\ details[RunStream].dmContent =
          Piece("block", 1, 6) \o Separator \o Piece("block", 2, 6)
    /\ "/tmp/report.pdf" \in details[RunStream].agentMediaKeys
    /\ Cardinality(MediaSends(outbox, "/tmp/report.pdf")) = 1
    /\ outbox[1].via = "dm_media" /\ outbox[1].ok

(* the block is a template card that deliver sends as a card *)
SentAsCard(payload, pushOk) ==
    payload.card /\ cfg.responseUrl /\ cfg.chatType # "group" /\ pushOk

(* the text deliver goes on with: the description of a template card that *)
(* cannot be sent as a card, the text of the block otherwise              *)
BlockText(payload) ==
    IF payload.card /\ ~(cfg.responseUrl /\ cfg.chatType # "group")
    THEN CardAsText(payload.text) ELSE payload.text

(* dmContent after the text is appended to it, within the cap: the text  *)
(* after a blank line, unchanged when the text is blank; beyond the cap: *)
(* exactly the cap, ending with the end of the text                      *)
Appended(before, text, after) ==
    LET joined == IF text[1].kind = "space" THEN before
                  ELSE IF before = EmptyText THEN text
                  ELSE before \o Separator \o text
    IN IF ByteLength(joined) <= STREAM_MAX_DM_BYTES THEN after = joined
       ELSE /\ ByteLength(after) = STREAM_MAX_DM_BYTES
            /\ after # EmptyText
            /\ after[Len(after)] = joined[Len(joined)]

-----------------------------------------------------------------------------
(* Properties of the end of a batch *)

(* C19: when the run of a batch ends, by whichever path (finalization, the *)
(* catch of a failed run, the rejection of an unauthorized command, the    *)
(* local-file and local-image returns), every ack stream registered for    *)
(* the batch that still exists is finished and its content is the          *)
(* completion hint.                                                        *)
C19_AckStreamsFinished ==
    [][\A s \in running : s \notin running' =>
          \A i \in 1..Len(AckStreamsOf(St, s)) :
             LET ackId == AckStreamsOf(St, s)[i] IN
             Has(streams', ackId) =>
                /\ streams'[ackId].finished
                /\ details'[ackId].content = FixedText("mergedDoneHint")]_vars

(* the same for the normal completion of the run alone *)
C19_AckStreamsFinishedOnCompletion ==
    [][\A s \in dispatching :
          (s \notin running'
           /\ (Has(streams', s) => details'[s].error = "")) =>
          \A i \in 1..Len(AckStreamsOf(St, s)) :
             LET ackId == AckStreamsOf(St, s)[i] IN
             Has(streams', ackId) =>
                /\ streams'[ackId].finished
                /\ details'[ackId].content = FixedText("mergedDoneHint")]_vars

(* C20: when the run of a flushed batch fails, its stream is finished with *)
(* the error recorded and the content "Error: ...", and the batch queued   *)
(* behind it becomes the active batch, flushed in the same step when its   *)
(* debounce has expired and with its timer armed otherwise.                *)
C20_FailureAdvancesQueue ==
    [][Fail(RunStream) =>
         /\ Has(streams', RunStream)
         /\ streams'[RunStream].finished
         /\ details'[RunStream].error # ""
         /\ details'[RunStream].content = FixedText("Error: agent failed")
         /\ LET c == RunOf(RunStream).conversationKey
                conv == conversationState[c]
            IN conv.queue # <<>> =>
                 LET next == Head(conv.queue) IN
                 /\ Has(conversationState', c)
                 /\ conversationState'[c].activeBatchKey = next
                 /\ (Has(pendingInbounds, next) =>
                       IF pendingInbounds[next].readyToFlush
                       THEN pendingInbounds[next].streamId \in running'
                       ELSE /\ Has(pendingInbounds', next)
                            /\ pendingInbounds'[next].timeout)]_vars

(* the same while the stream of the failed run still exists *)
C20_FailureWhileStreamExists ==
    [][(Fail(RunStream) /\ Has(streams, RunStream)) =>
         /\ Has(streams', RunStream)
         /\ streams'[RunStream].finished
         /\ details'[RunStream].error # ""
         /\ details'[RunStream].content =
               (IF details[RunStream].content # EmptyText
                THEN details[RunStream].content
                ELSE FixedText("Error: agent failed"))
         /\ LET c == RunOf(RunStream).conversationKey
                conv == conversationState[c]
            IN conv.queue # <<>> =>
                 LET next == Head(conv.queue) IN
                 /\ Has(conversationState', c)
                 /\ conversationState'[c].activeBatchKey = next
                 /\ (Has(pendingInbounds, next) =>
                       IF pendingInbounds[next].readyToFlush
                       THEN pendingInbounds[next].streamId \in running'
                       ELSE /\ Has(pendingInbounds', next)
                            /\ pendingInbounds'[next].timeout)]_vars

-----------------------------------------------------------------------------
(* Properties of one webhook request *)

\* C21: no exception escapes handleWecomWebhookRequest: whatever the request
\* and the state of the runtime, the call ends with a response or with
\* "not handled", never by throwing.
C21_NoExceptionEscapes ==
    (call.fn = "handleWecomWebhookRequest" /\ returned.done)
        => returned.result # "threw"

\* The requests that do throw are those of the three unguarded places: the
\* agent route without a runtime, a decrypted payload that is not JSON, and
\* the template-card event.
C21_ThrowsOnlyUnguarded ==
    (call.fn = "handleWecomWebhookRequest" /\ returned.done
        /\ returned.result = "threw")
        => \/ call.path = "/wecom/agent" /\ ~call.runtimeReady
           \/ call.method = "POST" /\ ~call.plainIsJson
           \/ call.method = "POST" /\ call.msgtype = "event"
                /\ call.eventtype = "template_card_event"

-----------------------------------------------------------------------------
(* Properties of the pruner *)

\* The active batch of conversation c is gone: it is no pending batch and no
\* stream of the store belongs to it.
ActiveBatchGone(c) ==
    LET active == conversationState[c].activeBatchKey IN
    /\ ~Has(pendingInbounds, active)
    /\ ~\E id \in DOMAIN streams :
          Has(streamIdToBatchKey, id) /\ streamIdToBatchKey[id] = active

\* C22: each prune run deletes every conversation entry whose active batch
\* no longer exists and whose queue is empty: after a prune no conversation
\* entry is left with an empty queue and an active batch that is gone.
C22_PruneDeletesDeadConversations ==
    [][Prune => \A c \in DOMAIN conversationState' :
                   ~(ActiveBatchGone(c)' /\ conversationState'[c].queue = <<>>)]_vars

\* What prune does instead: the batch key of every stream ever created stays
\* in streamIdToBatchKey, so prune finds every active batch "existing" and
\* deletes no conversation entry at all.
C22_PruneKeepsConversations ==
    [][Prune => conversationState' = conversationState]_vars

\* Nothing is in flight: no request is being handled and no agent runs.
Quiet ==
    /\ \A h \in Handlers : reqs[h].pc = "idle"
    /\ running = {}

\* Every TTL has elapsed: each stream and each pending batch is past its TTL.
AllExpired ==
    /\ ExpiredStreams(St) = DOMAIN streams
    /\ ExpiredPendings(St) = DOMAIN pendingInbounds

\* C23: every map of the stream store has a TTL and a pruner: once traffic
\* has stopped, the batches have finished and every TTL has elapsed, a prune
\* run leaves the streams, msgid -> stream, pending, conversation,
\* stream -> batch key and batch -> ack streams maps empty.
C23_PruneEmptiesEveryMap ==
    [][(Prune /\ Quiet /\ AllExpired) =>
          /\ streams' = EmptyMap
          /\ \A m \in MsgIds : msgidToStreamId'[m] = NoStream
          /\ pendingInbounds' = EmptyMap
          /\ conversationState' = EmptyMap
          /\ streamIdToBatchKey' = EmptyMap
          /\ batchStreamIdToAckStreamIds' = EmptyMap]_vars

\* The three maps that prune does empty.
C23_PruneEmptiesTimedMaps ==
    [][(Prune /\ Quiet /\ AllExpired) =>
          /\ streams' = EmptyMap
          /\ \A m \in MsgIds : msgidToStreamId'[m] = NoStream
          /\ pendingInbounds' = EmptyMap]_vars

\* streamIdToBatchKey has no delete at all: it only grows.
C23_BatchKeysOnlyGrow ==
    [][\A id \in DOMAIN streamIdToBatchKey :
          Has(streamIdToBatchKey', id)
          /\ streamIdToBatchKey'[id] = streamIdToBatchKey[id]]_vars

-----------------------------------------------------------------------------
(* Properties of the registrations *)

\* the registrations made and not yet unregistered
Live == {r \in DOMAIN registrations : registrations[r].live}

\* registration r is what requests of its path are routed to
Routed(r) ==
    IF registrations[r].kind = "agent"
    THEN Has(agentTargets, AgentPath) /\ agentTargets[AgentPath] = r
    ELSE /\ Has(webhookTargets, registrations[r].path)
         /\ \E n \in DOMAIN webhookTargets[registrations[r].path] :
               webhookTargets[registrations[r].path][n] = r

\* C24: the prune task runs exactly when at least one handler, Bot or
\* Application, is registered, and the unregister function of one
\* registration removes that registration only: every registration not yet
\* unregistered is still in its map.
C24_PruneWhileRegistered ==
    /\ pruneInterval <=> (Live # {})
    /\ \A r \in Live : registrations[r].kind = "bot" => Routed(r)
    /\ (\E r \in Live : registrations[r].kind = "agent")
          => Has(agentTargets, AgentPath)

\* The Bot side alone keeps the claim: as long as no Application handler was
\* registered twice, the timer runs exactly while a registration is live and
\* each live Bot registration is routed.
C24_HoldsForOneAgent ==
    (Cardinality({r \in DOMAIN registrations : registrations[r].kind = "agent"}) <= 1)
       => /\ pruneInterval <=> (Live # {})
          /\ \A r \in Live : Routed(r)

-----------------------------------------------------------------------------
(* Properties of the Application callback *)

\* the callbacks with MsgId m whose processing has started
StartsOf(m) == {n \in DOMAIN processed : processed[n].msgId = m}

\* m has started processing less than the TTL ago
RecentlyStarted(m) ==
    \E n \in StartsOf(m) : agentNow - processed[n].at < RECENT_MSGID_TTL_MS

\* C25: a POST whose MsgId has been seen within the last 10 minutes is
\* answered "success" and not processed again, and two processings of one
\* MsgId are at least 10 minutes apart, also when the POSTs are in flight
\* together.
C25_MsgIdProcessedOncePerWindow ==
    /\ [](\A m \in AgentMsgIds \ {""} : \A i, j \in StartsOf(m) :
             i < j => processed[j].at - processed[i].at >= RECENT_MSGID_TTL_MS)
    /\ [][\A h \in Handlers :
            (/\ AgentHandle(h)
             /\ agentReqs[h].valid
             /\ agentReqs[h].msgId # ""
             /\ RecentlyStarted(agentReqs[h].msgId))
            => /\ processed' = processed
               /\ agentReqs'[h].status = 200
               /\ agentReqs'[h].body = "success"
               /\ ~agentReqs'[h].started]_vars

\* A duplicate has been answered while the first POST of the MsgId was
\* processed, and a later POST of the same MsgId, a window later, has been
\* processed again.
C25_Witness ==
    /\ \E h \in Handlers :
          /\ agentReqs[h].pc = "done" /\ agentReqs[h].msgId = "m1"
          /\ agentReqs[h].body = "success" /\ ~agentReqs[h].started
    /\ Cardinality(StartsOf("m1")) = 2

-----------------------------------------------------------------------------
(* Properties of the first reply and the polls *)

\* C26: the stream id of the first reply to a Bot message is the stream the
\* later stream-refresh polls read: for active_new and queued_new it is the
\* batch's own stream, created by this request; for a merged message it is a
\* newly created ack stream, distinct from the batch stream, not finished,
\* marked started and registered against the batch.
C26_ReplyStreamIsPolledStream ==
    [][Admits =>
        LET sid == lastReply'.streamId
            b == lastReply'.batchStreamId
            poll == StreamRefresh(St', sid)
        IN /\ poll.id = sid /\ poll.found /\ ~poll.finish
           /\ ~Has(streams, sid)
           /\ (lastReply'.status \in {"active_new", "queued_new"} =>
                 /\ sid = b
                 /\ Has(streamIdToBatchKey', sid)
                 /\ Has(pendingInbounds', streamIdToBatchKey'[sid])
                 /\ pendingInbounds'[streamIdToBatchKey'[sid]].streamId = sid)
           /\ (lastReply'.status \in {"active_merged", "queued_merged"} =>
                 /\ sid # b
                 /\ Has(streams, b)
                 /\ ~Has(streamIdToBatchKey', sid)
                 /\ streams'[sid].started
                 /\ ~streams'[sid].finished
                 /\ Has(batchStreamIdToAckStreamIds', b)
                 /\ \E n \in DOMAIN batchStreamIdToAckStreamIds'[b] :
                       batchStreamIdToAckStreamIds'[b][n] = sid)]_vars

\* A merged message has been answered with its ack stream, which a poll
\* would find unfinished, while the batch it was merged into is queued.
C26_Witness ==
    /\ lastReply.status = "queued_merged"
    /\ StreamRefresh(St, lastReply.streamId).found
    /\ ~StreamRefresh(St, lastReply.streamId).finish
    /\ lastReply.streamId \in AckStreamsFor(lastReply.batchStreamId)

-----------------------------------------------------------------------------
(* Properties of the files read for a block *)

\* C27: a local path that comes from the model is read and attached only if
\* that exact path is in the user's raw message body: every file deliver
\* reads for a block is named in the raw body.
C27_ReadsOnlyUserPaths ==
    (call.fn = "deliver" /\ returned.done)
        => \A p \in returned.read : p \in call.rawBody

\* The paths inferred from the text are guarded: a block that declares no
\* media reads only image paths that the raw body names.
C27_InferredPathsGuarded ==
    (call.fn = "deliver" /\ returned.done)
        => \A p \in returned.inferred : p \in call.rawBody /\ p \in call.text

-----------------------------------------------------------------------------
(* Properties of resolveWecomTarget *)

\* the target as written, without the blanks around it and without a
\* namespace word in front
Written(raw) ==
    LET t == TrimTarget(raw) IN
    IF t # <<>> /\ LowerWord(t[1]) \in {"wecom-agent:", "wecom:"}
    THEN SubSeq(t, 2, Len(t)) ELSE t

\* the kind an explicit type prefix names
PrefixKind ==
    [w \in {"party:", "dept:", "tag:", "group:", "chat:", "user:"} |->
        CASE w \in {"party:", "dept:"} -> "party"
          [] w = "tag:" -> "tag"
          [] w \in {"group:", "chat:"} -> "chat"
          [] OTHER -> "user"]

\* C29: resolveWecomTarget maps every input that is not blank to exactly one
\* of user, party, tag and chat; an explicit type prefix always decides the
\* kind, whatever follows it, and only without one do the heuristics apply:
\* wr or wc in front gives chat, digits only give party, anything else user.
C29_TargetKind ==
    (call.fn = "resolveWecomTarget" /\ returned.done) =>
        LET w == Written(call.raw)
            kind == returned.target.kind
        IN /\ (TrimTarget(call.raw) # <<>>) <=> (kind \in {"user", "party", "tag", "chat"})
           /\ (TrimTarget(call.raw) = <<>>) <=> (kind = "undefined")
           /\ (w # <<>> /\ LowerWord(w[1]) \in DOMAIN PrefixKind)
                 => kind = PrefixKind[LowerWord(w[1])]
           /\ (w # <<>> /\ LowerWord(w[1]) \notin DOMAIN PrefixKind) =>
                 /\ (LowerWord(w[1]) \in {"wr", "wc"}) => kind = "chat"
                 /\ (LowerWord(w[1]) \notin {"wr", "wc"}
                        /\ \A n \in DOMAIN w : w[n] = "7") => kind = "party"
                 /\ (LowerWord(w[1]) \notin {"wr", "wc"}
                        /\ \E n \in DOMAIN w : w[n] # "7") => kind = "user"

\* An explicit user: prefix in front of digits has been resolved to a user,
\* and behind a namespace word.
C29_Witness ==
    /\ call.fn = "resolveWecomTarget" /\ returned.done
    /\ call.raw = <<"wecom:", "user:", "7">>
    /\ returned.target = [kind |-> "user", id |-> <<"7">>]

-----------------------------------------------------------------------------
(* Properties of the outbound adapter *)

\* the target of the call is a chat: an explicit chat: or group: prefix, or
\* an id that begins with wr or wc
ToChat ==
    LET w == Written(call.to) IN
    /\ w # <<>>
    /\ \/ LowerWord(w[1]) \in {"chat:", "group:"}
       \/ LowerWord(w[1]) \in {"wr", "wc"}

\* C28: sendText and sendMedia to a target that resolves to a chat id are
\* refused with an error before any token request, upload or send is made.
C28_ChatTargetRefused ==
    (call.fn \in {"sendText", "sendMedia"} /\ returned.done /\ ToChat)
        => returned.error # "" /\ returned.calls = <<>>

\* With a chat id that is not empty nothing is ever requested from WeCom.
C28_NoCallToChatId ==
    (call.fn \in {"sendText", "sendMedia"} /\ returned.done /\ ToChat
        /\ resolveWecomTarget(call.to).id # <<>>)
        => returned.calls = <<>> /\ (returned.error # "" \/ returned.suppressed)

-----------------------------------------------------------------------------
(* Properties of the envelope codec *)

\* the length of the frame of the call: 16 + 4 + |P| + |receiverId|, in bytes
FramedLength ==
    16 + 4 + Len(Utf8Encode(call.plaintext)) + Len(Utf8Encode(call.receiveId))

\* C30: decrypting what encrypting P gave returns exactly P, for every
\* plaintext, key and receiver id; a frame whose length is a multiple of 32
\* gets a full block of 32 padding bytes, which decryption removes again.
C30_EnvelopeRoundTrip ==
    /\ (call.fn = "encryptWecomPlaintext" /\ returned # NotReturned) =>
          /\ returned.rawLen = FramedLength
          /\ returned.paddedLen % WECOM_PKCS7_BLOCK_SIZE = 0
          /\ returned.paddedLen > returned.rawLen
          /\ returned.paddedLen - returned.rawLen <= WECOM_PKCS7_BLOCK_SIZE
          /\ (FramedLength % WECOM_PKCS7_BLOCK_SIZE = 0) =>
                returned.paddedLen = FramedLength + WECOM_PKCS7_BLOCK_SIZE
    /\ (call.fn = "encryptWecomPlaintext" /\ returned.done) =>
          /\ returned.error = ""
          /\ returned.msg = call.plaintext

\* A plaintext of 12 bytes without receiver id, whose frame is one block of
\* 32 bytes, has made the round trip, and its last byte is a 32.
C30_Witness ==
    /\ call.fn = "encryptWecomPlaintext" /\ returned.done
    /\ FramedLength = WECOM_PKCS7_BLOCK_SIZE
    /\ returned.paddedLen = 2 * WECOM_PKCS7_BLOCK_SIZE
    /\ call.plaintext # <<>> /\ call.plaintext[Len(call.plaintext)] = 32
    /\ returned.msg = call.plaintext

-----------------------------------------------------------------------------
(* Properties of the queue advance on a pruned stream *)

(* C31: whenever the run of the stream of a conversation's active batch calls
   onStreamFinished, the queue advances: with nothing queued the conversation
   entry is deleted, otherwise the queued batch becomes the active batch and
   leaves the queue; also when the TTL pruner has removed the state of that
   stream before the call. *)
C31_FinishAdvancesAlways ==
    [][\A s \in running : FinishesActive(s) =>
          LET c == RunOf(s).conversationKey
              conv == conversationState[c]
          IN IF conv.queue = <<>>
             THEN ~Has(conversationState', c)
             ELSE /\ Has(conversationState', c)
                  /\ conversationState'[c].activeBatchKey = Head(conv.queue)
                  /\ conversationState'[c].queue = Tail(conv.queue)]_vars

(* the same for the calls made while the state of the stream still exists *)
C31_AdvancesWhileStreamExists ==
    [][\A s \in running : (FinishesActive(s) /\ Has(streams, s)) =>
          LET c == RunOf(s).conversationKey
              conv == conversationState[c]
          IN IF conv.queue = <<>>
             THEN ~Has(conversationState', c)
             ELSE /\ Has(conversationState', c)
                  /\ conversationState'[c].activeBatchKey = Head(conv.queue)
                  /\ conversationState'[c].queue = Tail(conv.queue)]_vars

(* and for the calls made after the pruner has removed it: nothing advances *)
C31_PrunedStreamLeavesQueue ==
    [][\A s \in running : (FinishesActive(s) /\ ~Has(streams, s)) =>
          UNCHANGED <<conversationState, pendingInbounds, agentRuns>>]_vars

-----------------------------------------------------------------------------
(* Properties of the debounce timers *)

(* the timers among ts that would run requestFlush for batch key k *)
ArmedIn(ts, k) == {t \in ts : t.batchKey = k}

(* the POST handled in this step was merged into an existing batch *)
Merges == Admits /\ lastReply'.status \in {"active_merged", "queued_merged"}

(* the batch key of the batch the POST handled in this step went to *)
MergedKey == streamIdToBatchKey'[lastReply'.batchStreamId]

(* C33: the flush is one-shot: every pending batch is handed to the flush
   handler at most once (no two runs are started for one batch stream); the
   step that hands a batch over removes its pending entry and leaves no timer
   armed for it, so that no later timer or promotion flushes it again. *)
C33_FlushIsOneShot ==
    /\ [](\A i, j \in 1..Len(agentRuns) :
             agentRuns[i].streamId = agentRuns[j].streamId => i = j)
    /\ [][Len(agentRuns') > Len(agentRuns) =>
             LET run == agentRuns'[Len(agentRuns')] IN
             /\ Len(agentRuns') = Len(agentRuns) + 1
             /\ Has(pendingInbounds, run.batchKey)
             /\ pendingInbounds[run.batchKey].streamId = run.streamId
             /\ run.contents = pendingInbounds[run.batchKey].contents
             /\ ~Has(pendingInbounds', run.batchKey)
             /\ ~Has(handles', run.batchKey)
             /\ ArmedIn(timers', run.batchKey) = {}]_vars

(* a batch of several messages has been flushed by its timer, and another of
   the conversation after it by the promotion *)
C33_Witness ==
    /\ Len(agentRuns) >= 2
    /\ Len(agentRuns[Len(agentRuns)].contents) >= 2
    /\ timers = {}
    /\ pendingInbounds = EmptyMap

(* C34: a merge cancels the timer the batch holds and arms a fresh one with
   the debounce interval of the merging message; a pending batch has at most
   one armed timer, the one it holds; and a timer that flushes a batch is the
   one armed by the latest message of the batch, never one armed before its
   latest merge. *)
C34_MergeRearmsTimer ==
    /\ [](\A k \in DOMAIN pendingInbounds :
             /\ Cardinality(ArmedIn(timers, k)) <= 1
             /\ \A t \in ArmedIn(timers, k) : Has(handles, k) /\ handles[k] = t.id)
    /\ [][\A in \in MessageInputs, debounceMs \in DebounceInputs :
             (DebouncePost(in[2], in[3], debounceMs) /\ Merges) =>
                 /\ Has(pendingInbounds, MergedKey)
                 /\ Has(handles, MergedKey) =>
                       \A t \in timers' : t.id # handles[MergedKey]
                 /\ ArmedIn(timers', MergedKey) =
                       {[id |-> nPosts', batchKey |-> MergedKey,
                         ms |-> EffectiveDebounceMs(debounceMs)]}
                 /\ handles'[MergedKey] = nPosts']_vars
    /\ [][\A t \in timers :
             (DebounceFire(t) /\ Len(agentRuns') > Len(agentRuns)) =>
                 LET contents == pendingInbounds[t.batchKey].contents IN
                 /\ t.id = contents[Len(contents)]
                 /\ agentRuns'[Len(agentRuns')].contents = contents]_vars

(* a batch that was merged into while its first timer was armed has been
   flushed by a timer, with the interval of the merging message *)
C34_Witness ==
    /\ Len(agentRuns) >= 2
    /\ Len(agentRuns[Len(agentRuns)].contents) >= 2
    /\ lastReply.status \in {"active_merged", "queued_merged"}
    /\ agentRuns[Len(agentRuns)].streamId = lastReply.batchStreamId
    /\ agentRuns[Len(agentRuns)].streamId \in running

-----------------------------------------------------------------------------
(* Properties of the promotion of a queued batch *)

(* the run of stream s returns in this step and its onStreamFinished promotes
   the queued batch of its conversation *)
Promotes(s) ==
    /\ FinishesActive(s)
    /\ conversationState[RunOf(s).conversationKey].queue # <<>>
    /\ Has(conversationState', RunOf(s).conversationKey)
    /\ conversationState'[RunOf(s).conversationKey].activeBatchKey =
           Head(conversationState[RunOf(s).conversationKey].queue)
    /\ Has(pendingInbounds, Head(conversationState[RunOf(s).conversationKey].queue))

(* the batch promoted by the return of the run of stream s *)
Promoted(s) == Head(conversationState[RunOf(s).conversationKey].queue)

(* C35: the promotion of a queued batch preserves its debounce timer: a batch
   promoted while a timer is armed for it is not flushed by the promotion (it
   stays pending with that timer armed and is flushed when the timer fires);
   only a batch with no timer armed, whose debounce has expired, is flushed
   at the promotion. *)
C35_PromotionKeepsTimer ==
    [][\A s \in running : Promotes(s) =>
          IF ArmedIn(timers, Promoted(s)) # {}
          THEN /\ Has(pendingInbounds', Promoted(s))
               /\ pendingInbounds'[Promoted(s)] = pendingInbounds[Promoted(s)]
               /\ ArmedIn(timers', Promoted(s)) = ArmedIn(timers, Promoted(s))
               /\ agentRuns' = agentRuns
          ELSE /\ ~Has(pendingInbounds', Promoted(s))
               /\ Len(agentRuns') = Len(agentRuns) + 1
               /\ agentRuns'[Len(agentRuns')].streamId =
                      pendingInbounds[Promoted(s)].streamId]_vars

(* what the promotion does: it follows the readyToFlush mark of the batch,
   whatever timer is armed *)
C35_PromotionFollowsReadyMark ==
    [][\A s \in running : Promotes(s) =>
          IF ~pendingInbounds[Promoted(s)].readyToFlush
          THEN /\ Has(pendingInbounds', Promoted(s))
               /\ pendingInbounds'[Promoted(s)] = pendingInbounds[Promoted(s)]
               /\ ArmedIn(timers', Promoted(s)) = ArmedIn(timers, Promoted(s))
               /\ agentRuns' = agentRuns
          ELSE /\ ~Has(pendingInbounds', Promoted(s))
               /\ ArmedIn(timers', Promoted(s)) = {}
               /\ Len(agentRuns') = Len(agentRuns) + 1
               /\ agentRuns'[Len(agentRuns')].streamId =
                      pendingInbounds[Promoted(s)].streamId]_vars

(* a batch waiting its turn is marked readyToFlush exactly when no timer is
   armed for it, unless a message was merged into it after the mark *)
C35_ReadyMarkMeansNoTimer ==
    \A k \in DOMAIN pendingInbounds :
        (pendingInbounds[k].readyToFlush /\ ArmedIn(timers, k) # {}) =>
            Len(pendingInbounds[k].contents) >= 2

-----------------------------------------------------------------------------
(* Properties of the files of a block *)

(* the sends by Agent DM of the file mediaPath among the entries of box
   after the first `from` ones *)
FileSends(box, from, mediaPath) ==
    {i \in (from + 1)..Len(box) : /\ box[i].via = "dm_media"
                                  /\ box[i].body = Piece(mediaPath, 0, 1)}

(* the block is delivered in this step to an existing stream of an account
   with the Agent configured and a known sender, and deliver reaches its loop
   over mediaUrls (the stream does not switch to the timeout fallback) *)
DeliversFiles(streamId, payload, pushOk, dmOk) ==
    /\ Deliver(streamId, payload, pushOk, dmOk)
    /\ cfg.agentConfigured
    /\ cfg.userId = "alice"
    /\ Has(streams, streamId)
    /\ ~NearTimeout(details[streamId], streams[streamId].finished)

(* the non-image items of a list of media *)
Files(mediaUrls) == {n \in DOMAIN mediaUrls : ~mediaUrls[n].image}

(* C37: every non-image item among the mediaUrls of a delivered block is sent
   by Agent DM when the Agent is configured and the sender is known: once if
   the stream has not sent that path before, not again otherwise; also when
   the block carries several non-image items. *)
C37_EveryFileSentByDm ==
    [][\A streamId \in dispatching, payload \in FilePayloads(nBlocks + 1),
          pushOk \in BOOLEAN, dmOk \in BOOLEAN :
          DeliversFiles(streamId, payload, pushOk, dmOk) =>
             \A n \in Files(payload.mediaUrls) :
                LET mediaPath == payload.mediaUrls[n].path IN
                IF mediaPath \in details[streamId].agentMediaKeys
                THEN FileSends(outbox', Len(outbox), mediaPath) = {}
                ELSE Cardinality(FileSends(outbox', Len(outbox), mediaPath)) = 1]_vars

(* what deliver does: the first non-image item of the block is sent unless
   the stream has sent its path before, and nothing is sent for the others *)
C37_FirstFileSentByDm ==
    [][\A streamId \in dispatching, payload \in FilePayloads(nBlocks + 1),
          pushOk \in BOOLEAN, dmOk \in BOOLEAN :
          (DeliversFiles(streamId, payload, pushOk, dmOk)
             /\ Files(payload.mediaUrls) # {}) =>
             LET files == Files(payload.mediaUrls)
                 first == CHOOSE n \in files : \A k \in files : n <= k
                 firstPath == payload.mediaUrls[first].path
             IN \A n \in files :
                   LET mediaPath == payload.mediaUrls[n].path IN
                   Cardinality(FileSends(outbox', Len(outbox), mediaPath)) =
                      IF /\ mediaPath = firstPath
                         /\ mediaPath \notin details[streamId].agentMediaKeys
                      THEN 1 ELSE 0]_vars

-----------------------------------------------------------------------------
(* Properties of the contents of the batches *)

(* where the content of POST n sits: the pending batches and the batches
   handed to the flush handler that hold it, each with the position *)
PendingPlaces(n) ==
    UNION {{<<k, x>> : x \in {y \in 1..Len(pendingInbounds[k].contents) :
                                 pendingInbounds[k].contents[y] = n}} :
           k \in DOMAIN pendingInbounds}

FlushedPlaces(n) ==
    UNION {{<<i, x>> : x \in {y \in 1..Len(agentRuns[i].contents) :
                                 agentRuns[i].contents[y] = n}} :
           i \in 1..Len(agentRuns)}

(* the contents of a batch are in the order the messages arrived *)
InArrivalOrder(contents) ==
    \A x, y \in 1..Len(contents) : x < y => contents[x] < contents[y]

(* C36: merging never duplicates or drops a message: the content of an
   admitted message sits in exactly one batch, once, at the end of that batch
   when it is admitted; the contents of a batch stay in arrival order; a
   content leaves a pending batch only to be handed, with the whole batch in
   the same order, to the flush handler, or because the pruner discards the
   batch after the 10-minute TTL; and what was handed over stays handed over
   once. *)
C36_NoMessageDuplicatedOrDropped ==
    /\ [](\A n \in 1..nPosts :
             /\ Cardinality(PendingPlaces(n)) + Cardinality(FlushedPlaces(n)) <= 1
             /\ \A k \in DOMAIN pendingInbounds :
                   InArrivalOrder(pendingInbounds[k].contents)
             /\ \A i \in 1..Len(agentRuns) : InArrivalOrder(agentRuns[i].contents))
    /\ [][Admits =>
             \E k \in DOMAIN pendingInbounds' :
                LET contents == pendingInbounds'[k].contents IN
                /\ contents[Len(contents)] = nPosts'
                /\ pendingInbounds'[k].streamId = lastReply'.batchStreamId]_vars
    /\ [][\A k \in DOMAIN pendingInbounds :
             LET pending == pendingInbounds[k] IN
             \/ /\ Has(pendingInbounds', k)
                /\ pendingInbounds'[k].streamId = pending.streamId
                /\ \A x \in 1..Len(pending.contents) :
                      pendingInbounds'[k].contents[x] = pending.contents[x]
             \/ /\ ~Has(pendingInbounds', k)
                /\ Len(agentRuns') = Len(agentRuns) + 1
                /\ agentRuns'[Len(agentRuns')].streamId = pending.streamId
                /\ agentRuns'[Len(agentRuns')].contents = pending.contents
             \/ /\ ~Has(pendingInbounds', k)
                /\ now - pending.createdAt > STREAM_TTL_MS
                /\ agentRuns' = agentRuns]_vars
    /\ [][\A i \in 1..Len(agentRuns) : agentRuns'[i] = agentRuns[i]]_vars

(* three messages were admitted, two of them merged into one batch, and both
   batches have been handed to the flush handler *)
C36_Witness ==
    /\ pendingInbounds = EmptyMap
    /\ Len(agentRuns) = 2
    /\ agentRuns[1].contents = <<1>>
    /\ agentRuns[2].contents = <<2, 3>>

-----------------------------------------------------------------------------
(* Properties of the ActiveReplyStore *)

(* C39: use(streamId, f) invokes f with the stored response_url and, when f
   succeeds, marks usedAt and returns; when f fails, lastError is recorded,
   usedAt is left as it was and the error is re-raised to the caller; when no
   response_url is stored for the stream, f is not invoked and use returns
   without error, the store unchanged. *)
C39_UseMarksOrRecordsError ==
    [][\A c \in Handlers :
          /\ \A streamId \in ReplyStreamIds :
                UseBegin(c, streamId) =>
                   IF ~Has(activeReplies, streamId)
                   THEN /\ uses'[c].pc = "returned"
                        /\ uses'[c].error = ""
                        /\ activeReplies' = activeReplies
                   ELSE /\ uses'[c].pc = "awaiting"
                        /\ uses'[c].responseUrl = activeReplies[streamId].response_url
                        /\ uses'[c].responseUrl # <<>>
          /\ \A error \in {"", "push failed: 500"} :
                UseSettle(c, error) =>
                   LET streamId == uses[c].streamId IN
                   /\ uses'[c].pc = IF error = "" THEN "returned" ELSE "thrown"
                   /\ uses'[c].error = error
                   /\ Has(activeReplies, streamId) =>
                         /\ Has(activeReplies', streamId)
                         /\ activeReplies'[streamId].usedAt =
                               IF error = "" THEN replyNow
                               ELSE activeReplies[streamId].usedAt
                         /\ activeReplies'[streamId].lastError =
                               IF error = "" THEN activeReplies[streamId].lastError
                               ELSE error]_vars

(* a use of a stream without response_url has returned; a use of the other
   stream has failed, leaving lastError and no usedAt *)
C39_Witness ==
    \E c \in Handlers, streamId \in ReplyStreamIds :
        /\ uses[c].pc = "thrown"
        /\ uses[c].error = "push failed: 500"
        /\ Has(activeReplies, uses[c].streamId)
        /\ activeReplies[uses[c].streamId].lastError = "push failed: 500"
        /\ activeReplies[uses[c].streamId].usedAt = NoTime
        /\ ~Has(activeReplies, streamId)
        /\ \E b \in Handlers : uses[b].pc = "returned" /\ uses[b].streamId = streamId

-----------------------------------------------------------------------------
(* Properties of one prune run *)

(* the entries of map `after` are those of `before` that are not gone, as
   they were *)
KeepsAllBut(before, after, gone) ==
    /\ DOMAIN after = DOMAIN before \ gone
    /\ \A k \in DOMAIN after : after[k] = before[k]

(* C38: prune(now) removes exactly the streams last updated more than 10
   minutes before now, with the msgid mappings that point at them, the
   pending batches created more than 10 minutes before now and the
   response_urls stored more than 60 minutes before now; every younger
   stream, mapping, pending batch and response_url is kept as it was. *)
C38_PruneRemovesExactlyExpired ==
    returned.done =>
        LET S == call.store
            S1 == returned.store
            oldStreams == {id \in DOMAIN S.streams :
                              now - S.streams[id].updatedAt > STREAM_TTL_MS}
            oldPendings == {k \in DOMAIN S.pendingInbounds :
                              now - S.pendingInbounds[k].createdAt > STREAM_TTL_MS}
            oldReplies == {id \in DOMAIN call.replies :
                              now - call.replies[id].createdAt > ACTIVE_REPLY_TTL_MS}
        IN /\ KeepsAllBut(S.streams, S1.streams, oldStreams)
           /\ KeepsAllBut(S.pendingInbounds, S1.pendingInbounds, oldPendings)
           /\ KeepsAllBut(call.replies, returned.replies, oldReplies)
           /\ \A m \in MsgIds :
                 S1.msgidToStreamId[m] =
                    IF S.msgidToStreamId[m] \in oldStreams THEN NoStream
                    ELSE S.msgidToStreamId[m]

(* prune has kept a stream and a response_url that are exactly at their TTL
   and removed an older stream, pending batch and response_url *)
C38_Witness ==
    /\ returned.done
    /\ call.store.streams[1].updatedAt = now - STREAM_TTL_MS
    /\ Has(returned.store.streams, 1)
    /\ ~Has(returned.store.streams, 2)
    /\ returned.store.msgidToStreamId["m1"] = 1
    /\ returned.store.msgidToStreamId["m2"] = NoStream
    /\ DOMAIN returned.store.pendingInbounds = {QueuedBatchKey(<<"A">>, 1)}
    /\ Has(call.replies, 1) /\ call.replies[1].createdAt = now - ACTIVE_REPLY_TTL_MS
    /\ Has(returned.replies, 1)
    /\ Has(call.replies, 2) /\ ~Has(returned.replies, 2)

-----------------------------------------------------------------------------
(* Properties of a repeated onStreamFinished *)

(* C40: a repeated or late onStreamFinished for a stream whose batch has
   completed changes nothing in the conversations: no queued batch is
   promoted or flushed and no entry is deleted, also after the batch key of
   the stream has been given to a later batch of the conversation. *)
C40_LateFinishChangesNothing ==
    [][\A streamId \in 1..nextStreamId :
          LateFinish(streamId) =>
             UNCHANGED <<conversationState, pendingInbounds, agentRuns, running>>]_vars

(* what the call does: it changes nothing unless the stream is still in the
   store and the active batch of its conversation has the batch key the
   stream had, given again to the batch of a later stream; then it ends that
   later batch *)
C40_LateFinishEndsBatchOfSameKey ==
    [][\A streamId \in 1..nextStreamId :
          LateFinish(streamId) =>
             \/ UNCHANGED <<conversationState, pendingInbounds, agentRuns, running>>
             \/ /\ Has(streams, streamId)
                /\ Has(conversationState, RunOf(streamId).conversationKey)
                /\ conversationState[RunOf(streamId).conversationKey].activeBatchKey =
                       RunOf(streamId).batchKey
                /\ \E later \in (streamId + 1)..nextStreamId :
                      /\ Has(streamIdToBatchKey, later)
                      /\ streamIdToBatchKey[later] = RunOf(streamId).batchKey]_vars

-----------------------------------------------------------------------------
(* Properties of the progress of a conversation *)

(* the active batch of conversation k can neither be flushed nor finish: it
   has no pending batch with an armed timer and no run of it is running *)
Dead(k) ==
    /\ Has(conversationState, k)
    /\ LET active == conversationState[k].activeBatchKey
       IN /\ ~(Has(pendingInbounds, active) /\ pendingInbounds[active].timeout)
          /\ \A s \in running : RunOf(s).batchKey # active

(* the pending batches of conversation k *)
WaitingIn(k) ==
    {key \in DOMAIN pendingInbounds : pendingInbounds[key].conversationKey = k}

(* C32: no conversation gets stuck: every message waiting in a pending batch
   can still be flushed to the agent, because the active batch of its
   conversation either waits for its debounce timer or is being handled by
   a running agent, whose onStreamFinished promotes the next batch. *)
C32_NoMessageBehindDeadBatch ==
    \A k \in ConversationKeys : Dead(k) => WaitingIn(k) = {}

(* a conversation whose active batch is dead stays so for ever *)
C32_DeadStaysDead ==
    [][\A k \in ConversationKeys : Dead(k) => Dead(k)']_vars

(* and nothing of it is handed to the agent any more: every message then
   admitted is queued and never flushed *)
C32_DeadNeverFlushes ==
    [][\A k \in ConversationKeys :
          Dead(k) =>
             \/ agentRuns' = agentRuns
             \/ agentRuns'[Len(agentRuns')].conversationKey # k]_vars

(* the same in temporal form: every admitted message is eventually flushed *)
C32_AdmittedEventuallyFlushed ==
    \A n \in 1..MaxPosts : (PendingPlaces(n) # {}) ~> (FlushedPlaces(n) # {})

====
